---- MODULE Spec2Model ----
(***************************************************************************)
(* Verification model of the chinese-worker client:                        *)
(*   - the stream transport (api/sse_client.py, SSEClient),                *)
(*   - the stream bridge (tui/handlers/stream.py, StreamHandler),          *)
(*   - the TUI session controller (tui/screens/chat.py, ChatScreen) with   *)
(*     the tool executor (tui/handlers/tools.py, ToolExecutor),            *)
(*   - the CLI driver (cli/chinese_worker/cli.py),                         *)
(*   - the legacy bridge (tui/handlers/sse_handler.py, SSEHandler).        *)
(* Several specifications share the module: SpecBridge, SpecCli, Spec (the *)
(* TUI controller with its concurrent tasks), SpecTurn (one turn of the   *)
(* TUI controller with every kind of event), SpecLoop (one turn with the  *)
(* events that drive the reconnection loop), SpecPhase (one turn with     *)
(* every kind of event and no user command besides the approval decision) *)
(* SpecClose (the bridge together with stop_operation on an idle screen), *)
(* SpecDrivers (one turn of the CLI driver or of the TUI controller),     *)
(* SpecTerm and SpecSentinel (a turn and a bridge under fairness),        *)
(* SpecScreen and SpecSend (a turn with the clear command, and with lines *)
(* submitted meanwhile) and SpecHandlers (both bridges side by side).     *)
(* Each leaves the variables of the parts it does not run at their idle   *)
(* values.                                                                *)
(***************************************************************************)
EXTENDS Integers, Sequences, FiniteSets, TLC

\* ------------------------------------------------------------------------
\* Bounds of the model
\* ------------------------------------------------------------------------
\* longest record sequence the server sends on one connection
MaxWire == 3
\* number of external close() calls on one StreamHandler
MaxClose == 2
\* the bridge followed together with stop_operation on an idle screen:
\* longest record sequence, stop_operation calls
MaxCloseWire == 2
\* records on the wire of the connection checked for termination
MaxSentinelWire == 2
MaxCloseStops == 1
\* records on the wire of the connection given to both handlers
MaxLegacyWire == 2
\* lines submitted through the chat input that are followed
MaxSends == 2

\* ------------------------------------------------------------------------
\* Shared vocabulary
\* ------------------------------------------------------------------------
None == "None"

\* sse_client.py:75 / stream.py:45: event types that end a connection
TerminalTypes == {"completed", "failed", "cancelled", "tool_request"}

\* stream.py:80: event types after which stream() stops iterating
StreamStopTypes == TerminalTypes \cup {"error"}

IsPrefix(s, t) == Len(s) <= Len(t) /\ SubSeq(t, 1, Len(s)) = s

\* ========================================================================
\* PART 1.  SSEClient and StreamHandler (worker thread + consumer)
\* ========================================================================
VARIABLES
    wire,        \* records the server sends on this connection, in order
    ending,      \* what the server does after the last record
    rd,          \* number of records the worker has read from the response
    thread,      \* position of the worker thread in _run_sse_sync
    cur,         \* event handed by events() to the worker loop
    sse_client,  \* StreamHandler._sse_client is set
    response,    \* SSEClient._response is set
    conn,        \* state of the HTTP response itself
    queue,       \* StreamHandler._queue
    closed,      \* StreamHandler._closed
    consumer,    \* position of the consumer inside stream()
    yielded,     \* history: items yielded by stream()
    extClose,    \* history: number of close() calls made from outside stream()
    legacy       \* an SSEHandler object on a connection that delivers the
                 \* same records: its fields and the positions of its
                 \* worker thread and of its stream()

bridgeVars == <<wire, ending, rd, thread, cur, sse_client, response, conn,
                queue, closed, consumer, yielded, extClose, legacy>>

\* ---- state of the CLI driver (PART 2) --------------------------------
VARIABLES
    cli_pc,                \* position inside handle_conversation_status
    initial_status,        \* initial_response["status"]
    initial_request,       \* initial_response["tool_request"]
    auto_approve,          \* local auto_approve of the running handler
    final_event,           \* local final_event of the current loop iteration
    pending_tool_request,  \* tool request handle_sse_events is handling, or None
    tool_result_status,    \* first component returned by execute_tool_request
    cli_result,            \* value returned by handle_conversation_status
    cli_conns,             \* history: SSEClient objects created
    cli_submits,           \* history: calls of client.submit_tool_result
    cli_prompts,           \* history: approval prompts and their answers
    cli_execs,             \* history: call ids whose tool was executed
    cli_calls              \* history: tool requests the server has made

cliVars == <<cli_pc, initial_status, initial_request, auto_approve, final_event,
             pending_tool_request, tool_result_status, cli_result, cli_conns,
             cli_submits, cli_prompts, cli_execs, cli_calls>>

\* ---- state of the TUI controller (ChatScreen, PART 3) -------------------
VARIABLES
    is_processing,        \* ChatScreen.is_processing
    current_stream,       \* ChatScreen._current_stream: 0 or a handler
    input_disabled,       \* chat_input.disabled
    auto_approve_tools,   \* app.auto_approve_tools
    pending_tool_event,   \* ChatScreen._pending_tool_event: 0 or the Event
                          \* made by that task
    event_set,            \* per task: its asyncio.Event has been set
    tool_decision,        \* ChatScreen._tool_decision
    current_tool_panel,   \* ChatScreen._current_tool_panel: 0 or the panel
                          \* made by that task
    panel_mounted,        \* per task: its ToolApprovalPanel is mounted
    handlers,             \* StreamHandler objects created so far
    stop_pc,              \* position inside stop_operation
    tasks,                \* the asyncio tasks of the controller
    widgets,              \* children mounted on the message list
    submits,              \* history: calls of client.submit_tool_result
    execs,                \* history: tool.execute calls and how they ended
    nevents,              \* history: events consumed so far
    nstops,               \* history: stop_operation calls so far
    sends,                \* history: what each send_message call did
    limits                \* what the environment provides in this run:
                          \* connections, events, stop requests

tuiVars == <<is_processing, current_stream, input_disabled, auto_approve_tools,
             pending_tool_event, event_set, tool_decision, current_tool_panel,
             panel_mounted, handlers, stop_pc, tasks, widgets, submits, execs,
             nevents, nstops, sends, limits>>

vars == << bridgeVars, cliVars, tuiVars >>

\* A record of the wire: the event: line and the state of its data: lines.
\*   data = "ok"    the data lines hold a JSON object
\*   data = "bad"   the data lines do not parse as JSON
\*   data = "empty" the record has no data
WireRecords ==
    { [type |-> "text_chunk",     data |-> "ok"],
      [type |-> "status_changed", data |-> "ok"],
      [type |-> "tool_request",   data |-> "ok"],
      [type |-> "completed",      data |-> "ok"],
      [type |-> "text_chunk",     data |-> "bad"],
      [type |-> "completed",      data |-> "bad"],
      [type |-> "text_chunk",     data |-> "empty"] }

\* eof: the server closes the connection; raise: the read fails (network
\* error, read timeout); hang: the server keeps the connection open and
\* sends nothing more; refuse: opening the connection fails.
Endings == {"eof", "raise", "hang", "refuse"}

RECURSIVE SeqsUpTo(_, _)
SeqsUpTo(S, n) ==
    IF n = 0 THEN { <<>> }
    ELSE LET shorter == SeqsUpTo(S, n - 1)
         IN  shorter \cup { Append(s, x) : s \in { t \in shorter : Len(t) = n - 1 }, x \in S }

\* sse_client.py:67-72: a record is yielded when it has an event type, a
\* non-empty data buffer, and the buffer parses as JSON
RecordYields(r) == r.data = "ok"

\* an events() without the test for terminal types
RecordEnds_never(r) == FALSE

\* sse_client.py:67,74-76: after a record with type and data, parsed or
\* not, a terminal type ends the generator
RecordEnds(r) == r.data # "empty" /\ r.type \in TerminalTypes

\* SSEClient.events() as a function of the records of the connection
RECURSIVE Events(_)
Events(w) ==
    IF w = <<>> THEN <<>>
    ELSE LET r == Head(w)
             here == IF RecordYields(r) THEN << r.type >> ELSE <<>>
         IN  IF RecordEnds(r) THEN here ELSE here \o Events(Tail(w))

\* stream.py:45: the worker leaves its loop after these types
WorkerBreaksAfter(t) == t \in TerminalTypes

\* stream.py:80: stream() leaves its loop after these types
StreamBreaksAfter(t) == t \in StreamStopTypes

\* queue.Queue is first-in first-out
QueuePut(q, x) == Append(q, x)
QueueHead_lifo(q) == q[Len(q)]
QueueHead(q) == Head(q)
QueueRest(q) == Tail(q)

Sentinel == "None"

\* sse_handler.py:15-21: SSEHandler.__init__, with the positions of the
\* worker (thread), of events() (rd, conn) and of stream() (consumer), and
\* the history of the items stream() yielded
LegacyHandler ==
    [thread |-> "unstarted", rd |-> 0, cur |-> None, conn |-> "unopened",
     sse_client |-> FALSE, queue |-> <<>>, closed |-> FALSE,
     consumer |-> "init", yielded |-> <<>>]

BridgeStartWith(n) ==
    /\ wire \in SeqsUpTo(WireRecords, n)
    /\ ending \in Endings
    /\ (ending = "refuse" => wire = <<>>)
    /\ rd = 0
    /\ thread = "unstarted"
    /\ cur = None
    /\ sse_client = FALSE
    /\ response = FALSE
    /\ conn = "unopened"
    /\ queue = <<>>
    /\ closed = FALSE
    /\ consumer = "init"
    /\ yielded = <<>>
    /\ extClose = 0
    /\ legacy = LegacyHandler

BridgeStart == BridgeStartWith(MaxWire)

BridgeIdle ==
    /\ wire = <<>>
    /\ ending = "eof"
    /\ rd = 0
    /\ thread = "unstarted"
    /\ cur = None
    /\ sse_client = FALSE
    /\ response = FALSE
    /\ conn = "unopened"
    /\ queue = <<>>
    /\ closed = FALSE
    /\ consumer = "init"
    /\ yielded = <<>>
    /\ extClose = 0
    /\ legacy = LegacyHandler

\* ---- worker thread: StreamHandler._run_sse_sync -------------------------

\* stream.py:29-34: self._sse_client = SSEClient(...)
WorkerCreate ==
    /\ thread = "create"
    /\ sse_client' = TRUE
    /\ thread' = "connect"
    /\ UNCHANGED <<wire, ending, rd, cur, response, conn, queue, closed,
                   consumer, yielded, extClose, legacy>>
    /\ UNCHANGED <<cliVars, tuiVars>>

\* sse_client.py:47-54: httpx.stream(...) opens the response and events()
\* stores it in self._response; a refused connection raises before that
\* and the worker reports it (stream.py:48-49)
WorkerConnect ==
    /\ thread = "connect"
    /\ IF ending = "refuse"
       THEN /\ queue' = QueuePut(queue, "error")
            /\ thread' = "final"
            /\ UNCHANGED <<response, conn>>
       ELSE /\ response' = TRUE
            /\ conn' = "open"
            /\ thread' = "read"
            /\ UNCHANGED queue
    /\ UNCHANGED <<wire, ending, rd, cur, sse_client, closed, consumer,
                   yielded, extClose, legacy>>
    /\ UNCHANGED <<cliVars, tuiVars>>

\* sse_client.py:60-85: the blocking read delivers the next record of the
\* wire.  A record without data is skipped, a record with malformed data is
\* dropped, a parsed record is yielded to the worker loop; after a terminal
\* type the generator returns (finally: self._response = None, and the
\* with block closes the response), the worker loop ends and the worker
\* goes to its finally clause.
WorkerReadRecord ==
    /\ thread = "read"
    /\ rd < Len(wire)
    /\ LET r == wire[rd + 1] IN
         /\ rd' = rd + 1
         /\ IF RecordYields(r)
            THEN /\ cur' = r.type
                 /\ thread' = "check"
                 /\ UNCHANGED <<response, conn>>
            ELSE IF RecordEnds(r)
            THEN /\ cur' = None
                 /\ thread' = "final"
                 /\ response' = FALSE
                 /\ conn' = "closed"
            ELSE /\ cur' = None
                 /\ thread' = "read"
                 /\ UNCHANGED <<response, conn>>
    /\ UNCHANGED <<wire, ending, sse_client, queue, closed, consumer,
                   yielded, extClose, legacy>>
    /\ UNCHANGED <<cliVars, tuiVars>>

\* sse_client.py:60,86-87: the server closed the connection: iter_lines
\* ends, events() returns, the worker loop ends
WorkerReadEof ==
    /\ thread = "read"
    /\ rd = Len(wire)
    /\ ending = "eof"
    /\ conn = "open"
    /\ response' = FALSE
    /\ conn' = "closed"
    /\ thread' = "final"
    /\ UNCHANGED <<wire, ending, rd, cur, sse_client, queue, closed,
                   consumer, yielded, extClose, legacy>>
    /\ UNCHANGED <<cliVars, tuiVars>>

\* sse_client.py:60,86-87 and stream.py:48-49: the read raises; events()
\* clears _response on the way out and the worker enqueues an error item
WorkerReadRaise ==
    /\ thread = "read"
    /\ rd = Len(wire)
    /\ ending = "raise"
    /\ conn = "open"
    /\ response' = FALSE
    /\ conn' = "closed"
    /\ queue' = QueuePut(queue, "error")
    /\ thread' = "final"
    /\ UNCHANGED <<wire, ending, rd, cur, sse_client, closed, consumer,
                   yielded, extClose, legacy>>
    /\ UNCHANGED <<cliVars, tuiVars>>

\* sse_client.py:93 closes the response from the event-loop thread while
\* the worker is inside iter_lines.  What the blocked read then does is not
\* defined by the code: it ends as at end of input, or it raises.  (Records
\* already received may still be delivered: WorkerReadRecord stays enabled.)
WorkerReadCancelled ==
    /\ thread = "read"
    /\ conn = "closed"
    /\ \E raises \in BOOLEAN :
         queue' = IF raises THEN QueuePut(queue, "error") ELSE queue
    /\ response' = FALSE
    /\ thread' = "final"
    /\ UNCHANGED <<wire, ending, rd, cur, sse_client, conn, closed,
                   consumer, yielded, extClose, legacy>>
    /\ UNCHANGED <<cliVars, tuiVars>>

\* stream.py:37-38: if self._closed: break
WorkerCheckClosed ==
    /\ thread = "check"
    /\ IF closed
       THEN /\ thread' = "final"
            /\ cur' = None
            /\ response' = FALSE
            /\ conn' = "closed"
       ELSE /\ thread' = "put"
            /\ UNCHANGED <<cur, response, conn>>
    /\ UNCHANGED <<wire, ending, rd, sse_client, queue, closed, consumer,
                   yielded, extClose, legacy>>
    /\ UNCHANGED <<cliVars, tuiVars>>

\* stream.py:39-46: self._queue.put((event_type, data)), then break after a
\* terminal type
WorkerPut ==
    /\ thread = "put"
    /\ queue' = QueuePut(queue, cur)
    /\ cur' = None
    /\ IF WorkerBreaksAfter(cur)
       THEN /\ thread' = "final"
            /\ response' = FALSE
            /\ conn' = "closed"
       ELSE /\ thread' = "read"
            /\ UNCHANGED <<response, conn>>
    /\ UNCHANGED <<wire, ending, rd, sse_client, closed, consumer, yielded,
                   extClose, legacy>>
    /\ UNCHANGED <<cliVars, tuiVars>>

\* a worker thread that ends without the sentinel
WorkerFinally_silent ==
    /\ thread = "final"
    /\ thread' = "done"
    /\ UNCHANGED <<wire, ending, rd, cur, sse_client, response, conn, closed,
                   consumer, yielded, extClose, queue, legacy>>
    /\ UNCHANGED <<cliVars, tuiVars>>

\* stream.py:50-51: finally: self._queue.put(None)
WorkerFinally ==
    /\ thread = "final"
    /\ queue' = QueuePut(queue, Sentinel)
    /\ thread' = "done"
    /\ UNCHANGED <<wire, ending, rd, cur, sse_client, response, conn, closed,
                   consumer, yielded, extClose, legacy>>
    /\ UNCHANGED <<cliVars, tuiVars>>

\* ---- StreamHandler.close and SSEClient.close ---------------------------

\* sse_client.py:89-96: SSEClient.close() closes the response it knows of
SSEClientClose ==
    /\ conn' = IF response /\ conn = "open" THEN "closed" ELSE conn
    /\ response' = FALSE

\* a close() that only sets the flag on its first call and closes the
\* client on a later one
HandlerClose_late ==
    /\ closed' = TRUE
    /\ IF closed /\ sse_client
       THEN /\ SSEClientClose
            /\ sse_client' = FALSE
       ELSE UNCHANGED <<sse_client, response, conn>>

\* stream.py:85-90: StreamHandler.close()
HandlerClose ==
    /\ closed' = TRUE
    /\ IF sse_client
       THEN /\ SSEClientClose
            /\ sse_client' = FALSE
       ELSE UNCHANGED <<sse_client, response, conn>>

\* a poll that waits for an item inside the event-loop thread, as
\* self._queue.get() would
PollYields_blocking == FALSE

\* stream.py:66-72: get_nowait() and, on Empty, await asyncio.sleep(0.02):
\* between two polls of an empty queue the generator is suspended
PollYields == TRUE

\* the event-loop thread can run another task: stream() is not waiting
\* for an item inside it
EventLoopFree == consumer = "poll" /\ queue = <<>> => PollYields

\* close() called by the owner of the handler (ChatScreen.stop_operation,
\* or the finally clause of _handle_response), from the event-loop thread
ExternalClose ==
    /\ EventLoopFree
    /\ extClose < MaxClose
    /\ extClose' = extClose + 1
    /\ HandlerClose
    /\ UNCHANGED <<wire, ending, rd, thread, cur, queue, consumer, yielded, legacy>>
    /\ UNCHANGED <<cliVars, tuiVars>>

\* ---- consumer: StreamHandler.stream ------------------------------------

\* stream.py:60-61: the first step of the generator starts the worker
StreamStart ==
    /\ consumer = "init"
    /\ thread' = "create"
    /\ consumer' = "poll"
    /\ UNCHANGED <<wire, ending, rd, cur, sse_client, response, conn, queue,
                   closed, yielded, extClose, legacy>>
    /\ UNCHANGED <<cliVars, tuiVars>>

\* stream.py:64: while not self._closed
StreamLoopTest_always == TRUE
StreamLoopTest == ~closed

\* stream.py:64 (loop test) together with 82-83 (finally: self.close())
StreamSeesClosed ==
    /\ consumer = "poll"
    /\ ~StreamLoopTest
    /\ consumer' = "done"
    /\ HandlerClose
    /\ UNCHANGED <<wire, ending, rd, thread, cur, queue, yielded, extClose, legacy>>
    /\ UNCHANGED <<cliVars, tuiVars>>

\* stream.py:64-78: one poll of the queue that finds an item.  The
\* sentinel ends the generator (finally: close()), any other item is
\* yielded.  (An empty queue makes the generator sleep and poll again,
\* which changes no state.)
StreamPoll ==
    /\ consumer = "poll"
    /\ StreamLoopTest
    /\ queue # <<>>
    /\ LET item == QueueHead(queue) IN
         /\ queue' = QueueRest(queue)
         /\ IF item = Sentinel
            THEN /\ consumer' = "done"
                 /\ HandlerClose
                 /\ UNCHANGED yielded
            ELSE /\ consumer' = "yielded"
                 /\ yielded' = Append(yielded, item)
                 /\ UNCHANGED <<closed, sse_client, response, conn>>
    /\ UNCHANGED <<wire, ending, rd, thread, cur, extClose, legacy>>
    /\ UNCHANGED <<cliVars, tuiVars>>

\* stream.py:78-81: the consumer asks for the next item; the generator
\* resumes after the yield and stops after a terminal or error item
StreamResume ==
    /\ consumer = "yielded"
    /\ IF StreamBreaksAfter(yielded[Len(yielded)])
       THEN /\ consumer' = "done"
            /\ HandlerClose
       ELSE /\ consumer' = "poll"
            /\ UNCHANGED <<closed, sse_client, response, conn>>
    /\ UNCHANGED <<wire, ending, rd, thread, cur, queue, yielded, extClose, legacy>>
    /\ UNCHANGED <<cliVars, tuiVars>>

\* ========================================================================
\* PART 2.  CLI driver: handle_conversation_status with handle_sse_events,
\* handle_polling_status and execute_tool_request
\* ========================================================================
\* connections one run of handle_sse_events may open
MaxCliConns == 3
\* tool requests the server may make while the driver polls
MaxCliCalls == 3


\* Shapes of a tool request payload: a registered tool, a name that is not
\* in the registry, a payload without name, a payload without call_id.
ReqKinds == {"ok", "unknown", "noname", "nocallid"}

\* a tool_request event whose payload is missing (data.get("tool_request")
\* is None)
NoRequest == [kind |-> "none", call_id |-> 0]

ToolRequest(kind, id) == [kind |-> kind, call_id |-> IF kind = "nocallid" THEN 0 ELSE id]

HasName(req) == req.kind # "noname"
HasCallId(req) == req.call_id # 0
Registered(req) == req.kind = "ok"

Approvals == {"yes", "no", "all"}
ToolOutcomes == {"success", "failure", "raise"}

\* one call of client.submit_tool_result and whether it returned
Submission(req, success, error, returned) ==
    [call_id |-> req.call_id, success |-> success, error |-> error, ok |-> returned]

\* cli.py:1121-1127, 1150-1155, 1159-1164: a submission inside
\* try/except Exception: return ("error", ...)
AfterGuardedSubmit_swallow(returned) == "continue"
AfterGuardedSubmit(returned) == IF returned THEN "continue" ELSE "error"

\* cli.py:1084-1166: execute_tool_request as a function of the request, the
\* auto_approve flag and the outcomes of what it calls: the answer to the
\* approval prompt, the outcome of the tool, and whether the first and the
\* second submit_tool_result call return.
ExecuteToolRequest(req, auto, approval, outcome, sub1, sub2) ==
    LET base == [status |-> "error", auto |-> auto, submits |-> <<>>,
                 prompted |-> FALSE, answer |-> None, executed |-> FALSE]
    IN
    IF req = NoRequest THEN base
    ELSE IF ~HasName(req) \/ ~HasCallId(req) THEN base
    ELSE IF ~Registered(req) THEN
        [base EXCEPT !.status = AfterGuardedSubmit(sub1),
                     !.submits = << Submission(req, FALSE, "unknown tool", sub1) >>]
    ELSE IF ~auto /\ approval = "no" THEN
        [base EXCEPT !.status = AfterGuardedSubmit(sub1),
                     !.prompted = TRUE,
                     !.answer = approval,
                     !.submits = << Submission(req, FALSE, "refused", sub1) >>]
    ELSE
        LET auto2 == auto \/ approval = "all"
            b2 == [base EXCEPT !.auto = auto2, !.prompted = ~auto,
                               !.answer = IF auto THEN None ELSE approval,
                               !.executed = TRUE]
        IN
        IF outcome = "raise" THEN
            [b2 EXCEPT !.status = AfterGuardedSubmit(sub1),
                       !.submits = << Submission(req, FALSE, "tool failed", sub1) >>]
        ELSE
            LET first == Submission(req, outcome = "success",
                                    IF outcome = "success" THEN None ELSE "tool failed", sub1)
            IN
            IF sub1 THEN [b2 EXCEPT !.status = "continue", !.submits = << first >>]
            ELSE [b2 EXCEPT !.status = AfterGuardedSubmit(sub2),
                            !.submits = << first, Submission(req, FALSE, "tool failed", sub2) >>]

CliStart ==
    /\ cli_pc \in {"start", "poll"}
    /\ initial_status \in {"processing", "completed", "failed", "waiting_for_tool"}
    /\ auto_approve = FALSE
    /\ final_event = None
    /\ pending_tool_request \in
         IF initial_status = "waiting_for_tool"
         THEN { ToolRequest(k, 1) : k \in ReqKinds } \cup { NoRequest }
         ELSE { NoRequest }
    /\ initial_request = pending_tool_request
    /\ tool_result_status = None
    /\ cli_result = None
    /\ cli_conns = 0
    /\ cli_submits = <<>>
    /\ cli_prompts = <<>>
    /\ cli_execs = <<>>
    /\ cli_calls = IF initial_status = "waiting_for_tool" THEN 1 ELSE 0

CliIdle ==
    /\ cli_pc = "idle"
    /\ initial_status = "processing"
    /\ auto_approve = FALSE
    /\ final_event = None
    /\ pending_tool_request = NoRequest
    /\ initial_request = NoRequest
    /\ tool_result_status = None
    /\ cli_result = None
    /\ cli_conns = 0
    /\ cli_submits = <<>>
    /\ cli_prompts = <<>>
    /\ cli_execs = <<>>
    /\ cli_calls = 0

\* cli.py:1230-1252: one approval prompt and the answer it returned
Prompt(req, answer) == [call_id |-> req.call_id, answer |-> answer]

\* the effects of one call of execute_tool_request for req on the driver's
\* state
ApplyToolRequest(req, r) ==
    /\ tool_result_status' = r.status
    /\ auto_approve' = r.auto
    /\ cli_submits' = cli_submits \o r.submits
    /\ cli_prompts' = IF r.prompted THEN Append(cli_prompts, Prompt(req, r.answer))
                      ELSE cli_prompts
    /\ cli_execs' = IF r.executed THEN Append(cli_execs, req.call_id)
                    ELSE cli_execs

\* cli.py:752-767: the initial response is completed or failed
CliInitialTerminal ==
    /\ cli_pc = "start"
    /\ initial_status \in {"completed", "failed"}
    /\ cli_result' = IF initial_status = "completed" THEN "completed" ELSE "error"
    /\ cli_pc' = "returned"
    /\ UNCHANGED <<initial_status, initial_request, auto_approve, final_event, pending_tool_request,
                   tool_result_status, cli_conns, cli_submits, cli_prompts,
                   cli_execs, cli_calls>>
    /\ UNCHANGED <<bridgeVars, tuiVars>>

\* cli.py:759-767 with handle_tool_request_status (1052-1081): the initial
\* response already waits for a tool
CliInitialTool ==
    /\ cli_pc = "start"
    /\ initial_status = "waiting_for_tool"
    /\ \E approval \in Approvals, outcome \in ToolOutcomes, sub1 \in BOOLEAN, sub2 \in BOOLEAN :
         LET r == ExecuteToolRequest(pending_tool_request, auto_approve,
                                     approval, outcome, sub1, sub2)
         IN  /\ ApplyToolRequest(pending_tool_request, r)
             /\ IF r.status = "continue"
                THEN /\ cli_pc' = "connect"
                     /\ UNCHANGED cli_result
                ELSE /\ cli_pc' = "returned"
                     /\ cli_result' = r.status
    /\ UNCHANGED <<initial_status, initial_request, final_event, pending_tool_request, cli_conns, cli_calls>>
    /\ UNCHANGED <<bridgeVars, tuiVars>>

\* cli.py:753-768: any other initial status goes straight to the SSE loop
CliInitialProcessing ==
    /\ cli_pc = "start"
    /\ initial_status = "processing"
    /\ cli_pc' = "connect"
    /\ UNCHANGED <<initial_status, initial_request, auto_approve, final_event, pending_tool_request,
                   tool_result_status, cli_result, cli_conns, cli_submits,
                   cli_prompts, cli_execs, cli_calls>>
    /\ UNCHANGED <<bridgeVars, tuiVars>>

\* cli.py:770-785: top of the SSE loop, a new SSEClient and fresh locals
CliConnect ==
    /\ cli_pc = "connect"
    /\ cli_conns < limits.conns
    /\ cli_conns' = cli_conns + 1
    /\ final_event' = None
    /\ pending_tool_request' = NoRequest
    /\ cli_pc' = "streaming"
    /\ UNCHANGED <<initial_status, initial_request, auto_approve, tool_result_status, cli_result,
                   cli_submits, cli_prompts, cli_execs, cli_calls>>
    /\ UNCHANGED <<bridgeVars, tuiVars>>

\* cli.py:787-843: the event loop of one connection ends with a tool
\* request (with or without payload), a terminal event, or the end of the
\* connection; sse_client.close() runs in the finally clause
CliStreamEnds ==
    /\ cli_pc = "streaming"
    /\ \E fe \in {"tool_request", "completed", "failed", "cancelled", None} :
         /\ final_event' = fe
         /\ IF fe = "tool_request"
            THEN /\ pending_tool_request' \in
                       { ToolRequest(k, cli_calls + 1) : k \in ReqKinds } \cup { NoRequest }
                 /\ cli_calls' = cli_calls + 1
            ELSE UNCHANGED <<pending_tool_request, cli_calls>>
    /\ cli_pc' = "phase3"
    /\ UNCHANGED <<initial_status, initial_request, auto_approve, tool_result_status, cli_result,
                   cli_conns, cli_submits, cli_prompts, cli_execs>>
    /\ UNCHANGED <<bridgeVars, tuiVars>>

\* cli.py:790,841-843: the transport raises; the finally clause closes the
\* client and the exception leaves handle_sse_events
CliStreamRaises ==
    /\ cli_pc = "streaming"
    /\ cli_pc' = "raised"
    /\ UNCHANGED <<initial_status, initial_request, auto_approve, final_event, pending_tool_request,
                   tool_result_status, cli_result, cli_conns, cli_submits,
                   cli_prompts, cli_execs, cli_calls>>
    /\ UNCHANGED <<bridgeVars, tuiVars>>

\* cli.py:850-865: a tool request with a payload is executed; "error" ends
\* the driver, anything else sleeps and reconnects
CliPhase3Tool ==
    /\ cli_pc = "phase3"
    /\ final_event = "tool_request"
    /\ pending_tool_request # NoRequest
    /\ \E approval \in Approvals, outcome \in ToolOutcomes, sub1 \in BOOLEAN, sub2 \in BOOLEAN :
         LET r == ExecuteToolRequest(pending_tool_request, auto_approve,
                                     approval, outcome, sub1, sub2)
         IN  /\ ApplyToolRequest(pending_tool_request, r)
             /\ IF r.status \in {"error", "completed"}
                THEN /\ cli_pc' = "returned"
                     /\ cli_result' = r.status
                ELSE /\ cli_pc' = "connect"
                     /\ UNCHANGED cli_result
    /\ UNCHANGED <<initial_status, initial_request, final_event, pending_tool_request, cli_conns, cli_calls>>
    /\ UNCHANGED <<bridgeVars, tuiVars>>

\* cli.py:867-892: terminal events, and the fall-through for a connection
\* that ended without one (also a tool_request event without payload)
CliPhase3Final ==
    /\ cli_pc = "phase3"
    /\ ~(final_event = "tool_request" /\ pending_tool_request # NoRequest)
    /\ cli_result' = CASE final_event = "completed" -> "completed"
                       [] final_event = "failed"    -> "error"
                       [] final_event = "cancelled" -> "cancelled"
                       [] OTHER                     -> "completed"
    /\ cli_pc' = "returned"
    /\ UNCHANGED <<initial_status, initial_request, auto_approve, final_event, pending_tool_request,
                   tool_result_status, cli_conns, cli_submits, cli_prompts,
                   cli_execs, cli_calls>>
    /\ UNCHANGED <<bridgeVars, tuiVars>>

\* cli.py:727-734, 983-985: handle_conversation_status catches the
\* exception of handle_sse_events and calls handle_polling_status with the
\* initial response; handle_polling_status starts with its own auto_approve
CliFallback ==
    /\ cli_pc = "raised"
    /\ cli_pc' = "poll"
    /\ auto_approve' = FALSE
    /\ UNCHANGED <<initial_status, initial_request, final_event, pending_tool_request,
                   tool_result_status, cli_result, cli_conns, cli_submits,
                   cli_prompts, cli_execs, cli_calls>>
    /\ UNCHANGED <<bridgeVars, tuiVars>>

\* statuses client.get_status may report
PolledStatuses == {"processing", "completed", "failed", "waiting_for_tool", "cancelled"}

\* cli.py:1002-1005, 1023-1026: client.get_status returned; the response
\* replaces initial_response
GetStatusReturns ==
    /\ \E s \in PolledStatuses :
         /\ initial_status' = s
         /\ IF s = "waiting_for_tool"
            THEN /\ cli_calls < limits.calls
                 /\ initial_request' \in
                       { ToolRequest(k, cli_calls + 1) : k \in ReqKinds } \cup { NoRequest }
                 /\ cli_calls' = cli_calls + 1
            ELSE /\ initial_request' = NoRequest
                 /\ UNCHANGED cli_calls
    /\ cli_pc' = "poll"
    /\ UNCHANGED cli_result

\* cli.py:1006-1007, 1027-1029: client.get_status raised
GetStatusRaises ==
    /\ cli_pc' = "returned"
    /\ cli_result' = "error"
    /\ UNCHANGED <<initial_status, initial_request, cli_calls>>

\* cli.py:987-994, 1031-1033: the polled status is completed or failed, or
\* one the loop does not know
CliPollFinal ==
    /\ cli_pc = "poll"
    /\ initial_status \notin {"waiting_for_tool", "processing"}
    /\ cli_result' = CASE initial_status = "completed" -> "completed"
                       [] initial_status = "failed"    -> "error"
                       [] OTHER                        -> initial_status
    /\ cli_pc' = "returned"
    /\ UNCHANGED <<initial_status, initial_request, auto_approve, final_event,
                   pending_tool_request, tool_result_status, cli_conns, cli_submits,
                   cli_prompts, cli_execs, cli_calls>>
    /\ UNCHANGED <<bridgeVars, tuiVars>>

\* cli.py:996-1008 with handle_tool_request_status (1052-1081): the polled
\* status waits for a tool; after "continue" the status is fetched again
CliPollTool ==
    /\ cli_pc = "poll"
    /\ initial_status = "waiting_for_tool"
    /\ \E approval \in Approvals, outcome \in ToolOutcomes, sub1 \in BOOLEAN, sub2 \in BOOLEAN :
         LET r == ExecuteToolRequest(initial_request, auto_approve,
                                     approval, outcome, sub1, sub2)
         IN  /\ ApplyToolRequest(initial_request, r)
             /\ IF r.status = "continue"
                THEN GetStatusReturns \/ GetStatusRaises
                ELSE /\ cli_pc' = "returned"
                     /\ cli_result' = r.status
                     /\ UNCHANGED <<initial_status, initial_request, cli_calls>>
    /\ UNCHANGED <<final_event, pending_tool_request, cli_conns>>
    /\ UNCHANGED <<bridgeVars, tuiVars>>

\* cli.py:1010-1029: the polled status is processing; the inner loop sleeps
\* and fetches the status until it changes
CliPollProcessing ==
    /\ cli_pc = "poll"
    /\ initial_status = "processing"
    /\ GetStatusReturns \/ GetStatusRaises
    /\ UNCHANGED <<auto_approve, final_event, pending_tool_request, tool_result_status,
                   cli_conns, cli_submits, cli_prompts, cli_execs>>
    /\ UNCHANGED <<bridgeVars, tuiVars>>

CliNext ==
    \/ CliInitialTerminal
    \/ CliInitialTool
    \/ CliInitialProcessing
    \/ CliConnect
    \/ CliStreamEnds
    \/ CliStreamRaises
    \/ CliPhase3Tool
    \/ CliPhase3Final
    \/ CliFallback
    \/ CliPollFinal
    \/ CliPollTool
    \/ CliPollProcessing


BridgeNext ==
    \/ StreamStart
    \/ WorkerCreate
    \/ WorkerConnect
    \/ WorkerReadRecord
    \/ WorkerReadEof
    \/ WorkerReadRaise
    \/ WorkerReadCancelled
    \/ WorkerCheckClosed
    \/ WorkerPut
    \/ WorkerFinally
    \/ ExternalClose
    \/ StreamSeesClosed
    \/ StreamPoll
    \/ StreamResume

\* ---- the legacy SSEHandler (sse_handler.py) ------------------------------

\* sse_handler.py:39: the worker leaves its loop after these types
LegacyWorkerBreaksAfter(t) == t \in {"completed", "failed", "cancelled"}

\* sse_handler.py:78: stream() leaves its loop after these types
LegacyStreamBreaksAfter(t) == t \in {"completed", "failed", "cancelled", "error"}

\* an events() that goes on reading when it is resumed after a terminal
\* type
GeneratorReturns_never(w, n) == FALSE

\* sse_client.py:70,74-76: events() is suspended at its yield; when the
\* worker loop asks for the next event the generator resumes after the
\* yield, tests the type it has just yielded and returns after a terminal
\* one.  n is the number of records read so far.
GeneratorReturns(w, n) == n > 0 /\ RecordYields(w[n]) /\ RecordEnds(w[n])

\* sse_handler.py:56-57: the first step of the generator starts the worker
LegacyStreamStart ==
    /\ legacy.consumer = "init"
    /\ legacy' = [legacy EXCEPT !.consumer = "poll", !.thread = "create"]
    /\ UNCHANGED <<wire, ending, rd, thread, cur, sse_client, response, conn,
                   queue, closed, consumer, yielded, extClose>>
    /\ UNCHANGED <<cliVars, tuiVars>>

\* sse_handler.py:26-31: self._sse_client = SSEClient(...)
LegacyWorkerCreate ==
    /\ legacy.thread = "create"
    /\ legacy' = [legacy EXCEPT !.sse_client = TRUE, !.thread = "connect"]
    /\ UNCHANGED <<wire, ending, rd, thread, cur, sse_client, response, conn,
                   queue, closed, consumer, yielded, extClose>>
    /\ UNCHANGED <<cliVars, tuiVars>>

\* sse_client.py:47-54 and sse_handler.py:42-43: the response is opened; a
\* refused connection raises and the worker reports it
LegacyWorkerConnect ==
    /\ legacy.thread = "connect"
    /\ legacy' = IF ending = "refuse"
                 THEN [legacy EXCEPT !.queue = QueuePut(@, "error"),
                                     !.thread = "final"]
                 ELSE [legacy EXCEPT !.conn = "open", !.thread = "read"]
    /\ UNCHANGED <<wire, ending, rd, thread, cur, sse_client, response, conn,
                   queue, closed, consumer, yielded, extClose>>
    /\ UNCHANGED <<cliVars, tuiVars>>

\* sse_handler.py:33 and sse_client.py:60-87: the worker loop asks events()
\* for the next event.  The generator returns when it had stopped at the
\* yield of a terminal type; otherwise the blocking read delivers the next
\* record (skipped, dropped or yielded as in WorkerReadRecord), the end of
\* the input, or an exception, which the worker reports
\* (sse_handler.py:42-43).
LegacyWorkerRead ==
    /\ legacy.thread = "read"
    /\ legacy.conn = "open"
    /\ \/ /\ GeneratorReturns(wire, legacy.rd)
          /\ legacy' = [legacy EXCEPT !.conn = "closed", !.thread = "final"]
       \/ /\ ~GeneratorReturns(wire, legacy.rd)
          /\ legacy.rd < Len(wire)
          /\ LET r == wire[legacy.rd + 1] IN
               legacy' =
                 IF RecordYields(r)
                 THEN [legacy EXCEPT !.rd = @ + 1, !.cur = r.type,
                                     !.thread = "check"]
                 ELSE IF RecordEnds(r)
                 THEN [legacy EXCEPT !.rd = @ + 1, !.cur = None,
                                     !.conn = "closed", !.thread = "final"]
                 ELSE [legacy EXCEPT !.rd = @ + 1, !.cur = None]
       \/ /\ ~GeneratorReturns(wire, legacy.rd)
          /\ legacy.rd = Len(wire)
          /\ ending = "eof"
          /\ legacy' = [legacy EXCEPT !.conn = "closed", !.thread = "final"]
       \/ /\ ~GeneratorReturns(wire, legacy.rd)
          /\ legacy.rd = Len(wire)
          /\ ending = "raise"
          /\ legacy' = [legacy EXCEPT !.conn = "closed",
                                      !.queue = QueuePut(@, "error"),
                                      !.thread = "final"]
    /\ UNCHANGED <<wire, ending, rd, thread, cur, sse_client, response, conn,
                   queue, closed, consumer, yielded, extClose>>
    /\ UNCHANGED <<cliVars, tuiVars>>

\* sse_handler.py:34-40: if self._closed: break; otherwise the event is
\* put on the queue and the loop ends after a terminal type of the worker
LegacyWorkerPut ==
    /\ legacy.thread = "check"
    /\ legacy' =
         IF legacy.closed
         THEN [legacy EXCEPT !.cur = None, !.conn = "closed", !.thread = "final"]
         ELSE IF LegacyWorkerBreaksAfter(legacy.cur)
         THEN [legacy EXCEPT !.queue = QueuePut(@, legacy.cur), !.cur = None,
                             !.conn = "closed", !.thread = "final"]
         ELSE [legacy EXCEPT !.queue = QueuePut(@, legacy.cur), !.cur = None,
                             !.thread = "read"]
    /\ UNCHANGED <<wire, ending, rd, thread, cur, sse_client, response, conn,
                   queue, closed, consumer, yielded, extClose>>
    /\ UNCHANGED <<cliVars, tuiVars>>

\* sse_handler.py:44-46: finally: self._queue.put(None)
LegacyWorkerFinally ==
    /\ legacy.thread = "final"
    /\ legacy' = [legacy EXCEPT !.queue = QueuePut(@, Sentinel), !.thread = "done"]
    /\ UNCHANGED <<wire, ending, rd, thread, cur, sse_client, response, conn,
                   queue, closed, consumer, yielded, extClose>>
    /\ UNCHANGED <<cliVars, tuiVars>>

\* sse_handler.py:89-94: close()
LegacyClose(h) ==
    [h EXCEPT !.closed = TRUE, !.sse_client = FALSE,
              !.conn = IF h.sse_client /\ h.conn = "open" THEN "closed" ELSE @]

\* sse_handler.py:60-75: one turn of the loop of stream() in which
\* queue.get(timeout=0.1), run on the executor, returns an item (a turn in
\* which it raises Empty changes nothing).  None ends the loop, which runs
\* close() (finally, sse_handler.py:86-87); any other item is yielded.
LegacyStreamGet ==
    /\ legacy.consumer = "poll"
    /\ ~legacy.closed
    /\ legacy.queue # <<>>
    /\ LET item == QueueHead(legacy.queue)
           h == [legacy EXCEPT !.queue = QueueRest(@)]
       IN  legacy' =
             IF item = Sentinel
             THEN LegacyClose([h EXCEPT !.consumer = "done"])
             ELSE [h EXCEPT !.yielded = Append(@, item), !.consumer = "yielded"]
    /\ UNCHANGED <<wire, ending, rd, thread, cur, sse_client, response, conn,
                   queue, closed, consumer, yielded, extClose>>
    /\ UNCHANGED <<cliVars, tuiVars>>

\* sse_handler.py:75-79 and 86-87: the consumer asks for the next item; the
\* generator resumes after the yield and leaves the loop after the types
\* of line 78
LegacyStreamResume ==
    /\ legacy.consumer = "yielded"
    /\ legacy' =
         IF LegacyStreamBreaksAfter(legacy.yielded[Len(legacy.yielded)])
         THEN LegacyClose([legacy EXCEPT !.consumer = "done"])
         ELSE [legacy EXCEPT !.consumer = "poll"]
    /\ UNCHANGED <<wire, ending, rd, thread, cur, sse_client, response, conn,
                   queue, closed, consumer, yielded, extClose>>
    /\ UNCHANGED <<cliVars, tuiVars>>

LegacyNext ==
    \/ LegacyStreamStart
    \/ LegacyWorkerCreate
    \/ LegacyWorkerConnect
    \/ LegacyWorkerRead
    \/ LegacyWorkerPut
    \/ LegacyWorkerFinally
    \/ LegacyStreamGet
    \/ LegacyStreamResume

\* StreamHandler while close() is never called from outside stream()
StreamHandlerNext ==
    \/ StreamStart
    \/ WorkerCreate
    \/ WorkerConnect
    \/ WorkerReadRecord
    \/ WorkerReadEof
    \/ WorkerReadRaise
    \/ WorkerCheckClosed
    \/ WorkerPut
    \/ WorkerFinally
    \/ StreamPoll
    \/ StreamResume

\* ========================================================================
\* PART 3.  TUI controller: ChatScreen and ToolExecutor
\* ========================================================================
\* asyncio tasks of the controller that may exist on one screen
MaxTasks == 2
\* StreamHandler objects created on one screen
MaxHandlers == 3
\* events consumed on one screen
MaxEvents == 1
\* stop_operation calls on one screen
MaxStops == 1
\* one turn followed on its own: StreamHandler objects, events, stop calls
MaxTurnHandlers == 2
MaxTurnEvents == 3
MaxTurnStops == 1
\* one turn followed on its own with the events that drive the reconnection
\* loop: StreamHandler objects, events, stop calls
MaxLoopHandlers == 3
MaxLoopEvents == 2
MaxLoopStops == 1
\* one turn followed on its own without user commands: StreamHandler
\* objects, events
MaxPhaseHandlers == 2
MaxPhaseEvents == 3
\* bounds of the turn checked for termination: every connection but the
\* first follows a tool_request event, so MaxTermEvents + 1 connections
\* are all the turn can ask for
MaxTermHandlers == 2
MaxTermEvents == 1
MaxTermStops == 1

\* bounds of the CLI driver when it is checked side by side with the TUI
MaxDriverConns == 2
MaxDriverCalls == 2

Limits(h, e, s) == [handlers |-> h, events |-> e, stops |-> s,
                    conns |-> MaxCliConns, calls |-> MaxCliCalls]

DriverLimits == [Limits(0, 0, 0) EXCEPT !.conns = MaxDriverConns,
                                        !.calls = MaxDriverCalls]

Tasks == 1..MaxTasks

\* call ids carried by tool_executing / tool_completed events; 0 stands for
\* an empty call id
ServerCallIds == {0, 1}

\* an event as delivered by StreamHandler.stream()
Ev(type, sub, call, req) == [type |-> type, sub |-> sub, call |-> call, req |-> req]

\* events that only drive the phase tracker
PhaseEvents ==
    { Ev("text_chunk", k, 0, NoRequest) : k \in {"thinking", "content"} }
    \cup { Ev(ty, None, c, NoRequest) : ty \in {"tool_executing", "tool_completed"},
                                        c \in ServerCallIds }

\* events that drive the reconnection loop; id is the call id a tool
\* request of this event would carry
ControlEvents(id) ==
    { Ev(ty, None, 0, NoRequest) :
        ty \in {"connected", "status_changed", "completed", "failed", "cancelled", "error"} }
    \cup { Ev("tool_request", None, 0, r) :
             r \in { ToolRequest(k, id) : k \in ReqKinds } \cup { NoRequest } }

\* tools.py:47, 55, 76, 81: the value ToolExecutor.execute returns; preview
\* is None or "of_output" (output[:200] if output else None)
ExecReturn(success, preview) == [called |-> TRUE, success |-> success, preview |-> preview]

\* ToolExecutor.execute was not called
NoReturn == [called |-> FALSE, success |-> FALSE, preview |-> None]

\* no tool_executing or tool_completed event was consumed
NoToolEvent == [type |-> None, call |-> 0, seq |-> 0]

\* a task of the controller with the locals of the coroutine it runs
\*   kind: "send" (_send_and_stream), "check" (_check_pending_tools),
\*         "reconnect" (_reconnect_stream)
\*   transport_failed (history): this _handle_response got the error item
\*         the worker enqueues when the transport raises (stream.py:48-49)
\*   last_tool (history): type, call id and number of the last
\*         tool_executing or tool_completed event this _handle_response got
\*   last_separator (history): the last event this _handle_response got
\*         that belongs to a phase: the kind of a text chunk,
\*         "tool_executing" or "tool_request"
BlankTask ==
    [kind |-> "none", pc |-> "idle",
     handler |-> 0, done |-> FALSE,
     current_phase |-> None, thinking_widget |-> 0, thinking_text |-> <<>>,
     content_widget |-> 0, md_stream |-> FALSE,
     tool_widgets |-> [c \in ServerCallIds \ {0} |-> 0],
     tool_request |-> NoRequest, decision |-> "unread", approved |-> FALSE,
     result |-> [success |-> FALSE, error |-> None], exec_ret |-> NoReturn,
     submitted |-> "none", terminal |-> FALSE, stopped |-> FALSE,
     last_separator |-> None, transport_failed |-> FALSE,
     last_tool |-> NoToolEvent]

\* a coroutine that has returned: its locals are gone
Returned(tk) == [BlankTask EXCEPT !.kind = tk.kind, !.pc = "done", !.done = tk.done,
                                  !.terminal = tk.terminal,
                                  !.transport_failed = tk.transport_failed]

\* a child of the message list
\*   thinking: state "open" / "finalized"      (ThinkingBlock)
\*   message:  state "streaming" / "final"     (assistant ChatMessage)
\*   tool:     state "executing" / "completed" (ToolStatusWidget)
\*   error, user: state "final"                (ChatMessage)
\* text is what the widget shows.  Two histories: received holds the
\* thinking chunks its owner got while the widget was an open
\* ThinkingBlock, finalizes counts the calls of ThinkingBlock.finalize.
Widget(kind, owner, state) ==
    [kind |-> kind, owner |-> owner, state |-> state, text |-> <<>>,
     received |-> <<>>, finalizes |-> 0, mounted |-> TRUE]

\* The part of the state a coroutine segment can change, as one value.
World ==
    [is_processing |-> is_processing, current_stream |-> current_stream,
     input_disabled |-> input_disabled, auto_approve_tools |-> auto_approve_tools,
     pending_tool_event |-> pending_tool_event, event_set |-> event_set,
     tool_decision |-> tool_decision, current_tool_panel |-> current_tool_panel,
     panel_mounted |-> panel_mounted, handlers |-> handlers, tasks |-> tasks,
     widgets |-> widgets, submits |-> submits, execs |-> execs]

Commit(W) ==
    /\ is_processing' = W.is_processing
    /\ current_stream' = W.current_stream
    /\ input_disabled' = W.input_disabled
    /\ auto_approve_tools' = W.auto_approve_tools
    /\ pending_tool_event' = W.pending_tool_event
    /\ event_set' = W.event_set
    /\ tool_decision' = W.tool_decision
    /\ current_tool_panel' = W.current_tool_panel
    /\ panel_mounted' = W.panel_mounted
    /\ handlers' = W.handlers
    /\ tasks' = W.tasks
    /\ widgets' = W.widgets
    /\ submits' = W.submits
    /\ execs' = W.execs

TuiQuiet ==
    /\ is_processing = FALSE
    /\ current_stream = 0
    /\ input_disabled = FALSE
    /\ auto_approve_tools = FALSE
    /\ pending_tool_event = 0
    /\ event_set = [t \in Tasks |-> FALSE]
    /\ tool_decision = None
    /\ current_tool_panel = 0
    /\ panel_mounted = [t \in Tasks |-> FALSE]
    /\ handlers = <<>>
    /\ stop_pc = "idle"
    /\ tasks = [t \in Tasks |-> BlankTask]
    /\ widgets = <<>>
    /\ submits = <<>>
    /\ execs = <<>>
    /\ nevents = 0
    /\ nstops = 0
    /\ sends = <<>>

TuiIdle == TuiQuiet /\ limits = Limits(0, 0, 0)

\* chat.py:35-54 and 65-83: the screen after construction and on_mount.  A
\* screen opened on an existing conversation starts _check_pending_tools as
\* a task; the conversation may hold a pending tool request.  The flag
\* auto_approve_tools belongs to the app and may have been set on an earlier
\* screen.
TuiStart ==
    /\ is_processing = FALSE
    /\ current_stream = 0
    /\ input_disabled = FALSE
    /\ auto_approve_tools \in BOOLEAN
    /\ pending_tool_event = 0
    /\ event_set = [t \in Tasks |-> FALSE]
    /\ tool_decision = None
    /\ current_tool_panel = 0
    /\ panel_mounted = [t \in Tasks |-> FALSE]
    /\ handlers = <<>>
    /\ stop_pc = "idle"
    /\ \E r \in { ToolRequest(k, 9) : k \in ReqKinds } \cup { NoRequest } :
         tasks = [t \in Tasks |->
                    IF t = 1 /\ r # NoRequest
                    THEN [BlankTask EXCEPT !.kind = "check", !.pc = "start",
                                           !.tool_request = r]
                    ELSE BlankTask]
    /\ widgets = <<>>
    /\ submits = <<>>
    /\ execs = <<>>
    /\ nevents = 0
    /\ nstops = 0
    /\ sends = <<>>
    /\ limits = Limits(MaxHandlers, MaxEvents, MaxStops)

\* chat.py:272-295: the screen right after send_message started a turn on a
\* fresh conversation; /approve-all may have been given before
TurnState ==
    /\ is_processing = TRUE
    /\ current_stream = 0
    /\ input_disabled = TRUE
    /\ auto_approve_tools \in BOOLEAN
    /\ pending_tool_event = 0
    /\ event_set = [t \in Tasks |-> FALSE]
    /\ tool_decision = None
    /\ current_tool_panel = 0
    /\ panel_mounted = [t \in Tasks |-> FALSE]
    /\ handlers = <<>>
    /\ stop_pc = "idle"
    /\ tasks = [t \in Tasks |->
                  IF t = 1 THEN [BlankTask EXCEPT !.kind = "send", !.pc = "send_api"]
                  ELSE BlankTask]
    /\ widgets = <<>>
    /\ submits = <<>>
    /\ execs = <<>>
    /\ nevents = 0
    /\ nstops = 0
    /\ sends = <<>>

TurnStart == TurnState /\ limits = Limits(MaxTurnHandlers, MaxTurnEvents, MaxTurnStops)

LoopStart == TurnState /\ limits = Limits(MaxLoopHandlers, MaxLoopEvents, MaxLoopStops)

PhaseStart == TurnState /\ limits = Limits(MaxPhaseHandlers, MaxPhaseEvents, 0)

\* ---- phase helpers of _handle_response ----------------------------------

SetWidget(W, i, st) == [W EXCEPT !.widgets[i].state = st]

\* chat.py:344-351
FinishContentPhase(W, t) ==
    LET tk == W.tasks[t]
        W1 == IF tk.content_widget # 0 THEN SetWidget(W, tk.content_widget, "final") ELSE W
    IN  [W1 EXCEPT !.tasks[t].md_stream = FALSE, !.tasks[t].content_widget = 0]

\* thinking_block.py: ThinkingBlock.finalize on widget i
Finalize(W, i) == [W EXCEPT !.widgets[i].state = "finalized",
                            !.widgets[i].finalizes = @ + 1]

\* a _finish_thinking_phase that keeps the reference to the block
FinishThinkingPhase_again(W, t) ==
    LET tk == W.tasks[t]
        W1 == IF tk.thinking_widget # 0 THEN Finalize(W, tk.thinking_widget) ELSE W
    IN  [W1 EXCEPT !.tasks[t].thinking_text = <<>>]

\* chat.py:353-358
FinishThinkingPhase(W, t) ==
    LET tk == W.tasks[t]
        W1 == IF tk.thinking_widget # 0 THEN Finalize(W, tk.thinking_widget) ELSE W
    IN  [W1 EXCEPT !.tasks[t].thinking_widget = 0, !.tasks[t].thinking_text = <<>>]

Mount(W, w) == [W EXCEPT !.widgets = Append(W.widgets, w)]

\* chat.py:360-368
StartContentPhase(W, t) ==
    LET W1 == FinishContentPhase(FinishThinkingPhase(W, t), t)
        W2 == Mount(W1, Widget("message", t, "streaming"))
    IN  [W2 EXCEPT !.tasks[t].current_phase = "content",
                   !.tasks[t].content_widget = Len(W2.widgets),
                   !.tasks[t].md_stream = TRUE]

\* chat.py:370-377
StartThinkingPhase(W, t) ==
    LET W1 == FinishThinkingPhase(W, t)
        W2 == Mount(W1, Widget("thinking", t, "open"))
    IN  [W2 EXCEPT !.tasks[t].current_phase = "thinking",
                   !.tasks[t].thinking_text = <<>>,
                   !.tasks[t].thinking_widget = Len(W2.widgets)]

\* history: the open ThinkingBlocks of task t among the first n widgets
\* have seen a thinking chunk
RECURSIVE ReceiveUpTo(_, _, _, _)
ReceiveUpTo(W, t, chunk, n) ==
    IF n = 0 THEN W
    ELSE LET V == ReceiveUpTo(W, t, chunk, n - 1)
         IN  IF /\ V.widgets[n].kind = "thinking"
                /\ V.widgets[n].owner = t
                /\ V.widgets[n].state = "open"
             THEN [V EXCEPT !.widgets[n].received = Append(@, chunk)]
             ELSE V

Receive(W, t, chunk) == ReceiveUpTo(W, t, chunk, Len(W.widgets))

\* chat.py:392-408: a text chunk; chunk identifies the chunk
OnTextChunk(W, t, sub, chunk) ==
    IF sub = "thinking"
    THEN LET W1 == IF W.tasks[t].current_phase # "thinking"
                   THEN StartThinkingPhase(FinishContentPhase(W, t), t) ELSE W
             txt == Append(W1.tasks[t].thinking_text, chunk)
             W2 == Receive([W1 EXCEPT !.tasks[t].thinking_text = txt], t, chunk)
         IN  IF W2.tasks[t].thinking_widget # 0
             THEN [W2 EXCEPT !.widgets[W2.tasks[t].thinking_widget].text = txt]
             ELSE W2
    ELSE LET W1 == IF W.tasks[t].current_phase # "content"
                   THEN StartContentPhase(W, t) ELSE W
         IN  IF W1.tasks[t].md_stream
             THEN [W1 EXCEPT !.widgets[W1.tasks[t].content_widget].text =
                                 Append(W1.widgets[W1.tasks[t].content_widget].text, chunk)]
             ELSE W1

\* a tool_executing branch that leaves the open text phase as it is
OnToolExecuting_keepsPhase(W, t, call) ==
    LET W2 == Mount(W, Widget("tool", t, "executing"))
    IN  IF call # 0
        THEN [W2 EXCEPT !.tasks[t].tool_widgets[call] = Len(W2.widgets)]
        ELSE W2

\* chat.py:411-422
OnToolExecuting(W, t, call) ==
    LET W1 == FinishThinkingPhase(FinishContentPhase(W, t), t)
        W2 == Mount([W1 EXCEPT !.tasks[t].current_phase = None],
                    Widget("tool", t, "executing"))
    IN  IF call # 0
        THEN [W2 EXCEPT !.tasks[t].tool_widgets[call] = Len(W2.widgets)]
        ELSE W2

\* chat.py:425-438 with tool_status.py:135-142
OnToolCompleted(W, t, call) ==
    LET tw == IF call # 0 THEN W.tasks[t].tool_widgets[call] ELSE 0
    IN  IF tw # 0
        THEN SetWidget(W, tw, "completed")
        ELSE Mount(W, Widget("tool", t, "completed"))

\* chat.py:501-506: final cleanup after the reconnection loop
FinalCleanup(W, t) ==
    LET tk == W.tasks[t]
        W1 == IF tk.content_widget # 0 THEN SetWidget(W, tk.content_widget, "final") ELSE W
    IN  FinishThinkingPhase(W1, t)

\* ---- control flow of _handle_response and _handle_tool_request ----------

\* chat.py:385-389: a new StreamHandler, stored in _current_stream, and the
\* first step of its stream() generator.  The request of the previous
\* connection is no longer referred to.
OpenStream(W, t) ==
    LET h == Len(W.handlers) + 1
    IN  [W EXCEPT !.handlers = Append(@, [state |-> "started", owner |-> t]),
                  !.current_stream = h,
                  !.tasks[t].handler = h,
                  !.tasks[t].pc = "streaming",
                  !.tasks[t].tool_request = NoRequest,
                  !.tasks[t].decision = "unread",
                  !.tasks[t].approved = FALSE,
                  !.tasks[t].exec_ret = NoReturn]

CloseHandler(W, h) == [W EXCEPT !.handlers[h].state = "closed"]

\* a loop that ignores done and always goes on to reconnect
LeaveStream_forgetsDone(W, t, dn) ==
    [CloseHandler(W, W.tasks[t].handler) EXCEPT !.current_stream = 0,
                                                !.tasks[t].done = dn,
                                                !.tasks[t].pc = "delay"]

\* chat.py:493-506 followed by the finally clause of the caller (317-321 or
\* 205-209): the for loop of one connection has been left.  dn is the
\* value of the local done.
LeaveStream(W, t, dn) ==
    LET W1 == [CloseHandler(W, W.tasks[t].handler) EXCEPT !.current_stream = 0,
                                                          !.tasks[t].done = dn]
    IN  IF dn
        THEN LET W2 == FinalCleanup(W1, t)
             IN  [W2 EXCEPT !.tasks[t] = Returned(W2.tasks[t]),
                            !.is_processing = FALSE,
                            !.input_disabled = FALSE]
        ELSE [W1 EXCEPT !.tasks[t].pc = "delay"]

\* a loop that stops after a handshake instead of reconnecting
AfterHandshake_ends(W, t) ==
    LeaveStream([W EXCEPT !.tasks[t].result = BlankTask.result], t, TRUE)

\* chat.py:155-159, 190-193 (resumed conversation) and 451-458 (stream
\* loop): _handle_tool_request has returned
AfterHandshake(W, t) ==
    LET W0 == [W EXCEPT !.tasks[t].result = BlankTask.result]
    IN  IF W.tasks[t].kind = "check"
        THEN IF W.tasks[t].approved
             THEN [W0 EXCEPT !.tasks[t].kind = "reconnect", !.tasks[t].pc = "start"]
             ELSE [W0 EXCEPT !.tasks[t] = Returned(W0.tasks[t])]
        ELSE LeaveStream(W0, t, FALSE)

\* an execute that runs a registered tool whether or not the request
\* carries a call id
Execute_lenient(W, t) ==
    LET req == W.tasks[t].tool_request
    IN  IF ~HasName(req)
        THEN AfterHandshake([W EXCEPT !.tasks[t].exec_ret = ExecReturn(FALSE, None)], t)
        ELSE IF ~Registered(req)
        THEN [W EXCEPT !.tasks[t].pc = "submit",
                       !.tasks[t].result = [success |-> FALSE, error |-> "unknown tool"],
                       !.tasks[t].exec_ret = ExecReturn(FALSE, None)]
        ELSE [W EXCEPT !.tasks[t].pc = "tool_exec"]

\* an execute that reports an unknown tool without submitting a result
Execute_silent(W, t) ==
    LET req == W.tasks[t].tool_request
    IN  IF ~HasName(req) \/ ~HasCallId(req) \/ ~Registered(req)
        THEN AfterHandshake([W EXCEPT !.tasks[t].exec_ret = ExecReturn(FALSE, None)], t)
        ELSE [W EXCEPT !.tasks[t].pc = "tool_exec"]

\* tools.py:36-61: ToolExecutor.execute up to its first suspension
Execute(W, t) ==
    LET req == W.tasks[t].tool_request
    IN  IF ~HasName(req) \/ ~HasCallId(req)
        THEN AfterHandshake([W EXCEPT !.tasks[t].exec_ret = ExecReturn(FALSE, None)], t)
        ELSE IF ~Registered(req)
        THEN [W EXCEPT !.tasks[t].pc = "submit",
                       !.tasks[t].result = [success |-> FALSE, error |-> "unknown tool"],
                       !.tasks[t].exec_ret = ExecReturn(FALSE, None)]
        ELSE [W EXCEPT !.tasks[t].pc = "tool_exec"]

\* a reject that runs the tool
Reject_runs(W, t) == [W EXCEPT !.tasks[t].pc = "tool_exec"]

\* tools.py:83-87: ToolExecutor.reject up to its first suspension
Reject(W, t) ==
    IF HasCallId(W.tasks[t].tool_request)
    THEN [W EXCEPT !.tasks[t].pc = "submit",
                   !.tasks[t].result = [success |-> FALSE, error |-> "refused"]]
    ELSE AfterHandshake(W, t)

\* a _handle_tool_request that asks for a decision whatever the flag says
HandleToolRequest_asks(W, t) ==
    [W EXCEPT !.tasks[t].submitted = "none",
              !.input_disabled = TRUE,
              !.pending_tool_event = t,
              !.event_set[t] = FALSE,
              !.tool_decision = None,
              !.current_tool_panel = t,
              !.panel_mounted[t] = TRUE,
              !.tasks[t].pc = "decision"]

\* chat.py:510-532: _handle_tool_request up to its first suspension
HandleToolRequest(W, t) ==
    LET W0 == [W EXCEPT !.tasks[t].submitted = "none"]
    IN  IF W0.auto_approve_tools
        THEN Execute([W0 EXCEPT !.tasks[t].approved = TRUE], t)
        ELSE [W0 EXCEPT !.input_disabled = TRUE,
                        !.pending_tool_event = t,
                        !.event_set[t] = FALSE,
                        !.tool_decision = None,
                        !.current_tool_panel = t,
                        !.panel_mounted[t] = TRUE,
                        !.tasks[t].pc = "decision"]

\* chat.py:533-553: _handle_tool_request after the decision event was set
ResumeAfterDecision(W, t) ==
    LET decision == W.tool_decision
        W1 == IF W.current_tool_panel # 0
              THEN [W EXCEPT !.panel_mounted[W.current_tool_panel] = FALSE,
                             !.current_tool_panel = 0]
              ELSE W
        W2 == [W1 EXCEPT !.pending_tool_event = 0, !.input_disabled = FALSE,
                         !.tasks[t].decision = decision]
    IN  IF decision = "yes"
        THEN Execute([W2 EXCEPT !.tasks[t].approved = TRUE], t)
        ELSE IF decision = "all"
        THEN Execute([W2 EXCEPT !.auto_approve_tools = TRUE,
                                !.tasks[t].approved = TRUE], t)
        ELSE Reject([W2 EXCEPT !.tasks[t].approved = FALSE], t)

\* a loop in which the cancelled branch leaves done unset
SetsDone_notCancelled(type) == type \in {"completed", "failed"}

\* chat.py:469,477,482: the branches that set done = True
SetsDone(type) == type \in {"completed", "failed", "cancelled"}

\* chat.py:389-491: the body of the async for loop for one event.  chunk
\* identifies a text chunk, and a tool request carries its own call id.
OnEvent(W, t, e, chunk) ==
    LET W0 == [W EXCEPT !.tasks[t].terminal =
                            @ \/ e.type \in {"completed", "failed", "cancelled"},
                        !.tasks[t].transport_failed = @ \/ e.type = "error",
                        !.tasks[t].last_tool =
                            IF e.type \in {"tool_executing", "tool_completed"}
                            THEN [type |-> e.type, call |-> e.call, seq |-> chunk]
                            ELSE @,
                        !.tasks[t].last_separator =
                            CASE e.type = "text_chunk" -> e.sub
                              [] e.type \in {"tool_executing", "tool_request"} -> e.type
                              [] OTHER -> @]
    IN
    CASE e.type = "text_chunk" -> OnTextChunk(W0, t, e.sub, chunk)
      [] e.type = "tool_executing" -> OnToolExecuting(W0, t, e.call)
      [] e.type = "tool_completed" -> OnToolCompleted(W0, t, e.call)
      [] e.type = "tool_request" ->
            IF e.req # NoRequest
            THEN LET W1 == FinishThinkingPhase(FinishContentPhase(W0, t), t)
                 IN  HandleToolRequest([W1 EXCEPT !.tasks[t].current_phase = None,
                                                  !.tasks[t].tool_request = e.req], t)
            ELSE LeaveStream(W0, t, SetsDone(e.type))
      [] e.type = "completed" ->
            LeaveStream(FinishThinkingPhase(W0, t), t, SetsDone(e.type))
      [] e.type = "failed" ->
            LeaveStream(Mount(FinishContentPhase(FinishThinkingPhase(W0, t), t),
                              Widget("error", t, "final")), t, SetsDone(e.type))
      [] e.type = "cancelled" ->
            LeaveStream(FinishThinkingPhase(W0, t), t, SetsDone(e.type))
      \* stream.py:80: stream() ends after an error item; no branch of the
      \* loop body matches it, so the for/else clause runs (chat.py:485-487)
      [] e.type = "error" -> LeaveStream(W0, t, TRUE)
      \* connected, status_changed: no effect on the controller state
      [] OTHER -> W0

\* ---- actions of the controller tasks ------------------------------------

FreeSlots == { t \in Tasks : tasks[t].kind = "none" }

\* chat.py:81, 157, 189: a task made with asyncio.create_task is already
\* runnable and takes its first step before the event loop handles user
\* input that arrives afterwards (a submitted line, a key binding)
InputHandled == \A t \in Tasks : tasks[t].pc # "start"

\* chat.py:272-295: send_message on an idle screen.  The input widget only
\* submits while it is enabled.
SendMessage ==
    /\ InputHandled
    /\ ~input_disabled
    /\ ~is_processing
    /\ FreeSlots # {}
    /\ LET t == CHOOSE x \in FreeSlots : \A y \in FreeSlots : x <= y
       IN  /\ tasks' = [tasks EXCEPT ![t] = [BlankTask EXCEPT !.kind = "send",
                                                              !.pc = "send_api"]]
    /\ is_processing' = TRUE
    /\ input_disabled' = TRUE
    /\ UNCHANGED <<current_stream, auto_approve_tools, pending_tool_event, event_set,
                   tool_decision, current_tool_panel, panel_mounted, handlers,
                   stop_pc, widgets, submits, execs, nevents, nstops>>
    /\ sends' = Append(sends, "sent")
    /\ UNCHANGED <<bridgeVars, cliVars, limits>>

\* a send_message that does not look at is_processing
SendMessageIgnored_sends ==
    /\ InputHandled
    /\ ~input_disabled
    /\ is_processing
    /\ Len(sends) < MaxSends
    /\ FreeSlots # {}
    /\ LET t == CHOOSE x \in FreeSlots : \A y \in FreeSlots : x <= y
       IN  /\ tasks' = [tasks EXCEPT ![t] = [BlankTask EXCEPT !.kind = "send",
                                                              !.pc = "send_api"]]
    /\ input_disabled' = TRUE
    /\ sends' = Append(sends, "sent")
    /\ UNCHANGED <<is_processing, current_stream, auto_approve_tools,
                   pending_tool_event, event_set, tool_decision, current_tool_panel,
                   panel_mounted, handlers, stop_pc, widgets, submits, execs,
                   nevents, nstops>>
    /\ UNCHANGED <<bridgeVars, cliVars, limits>>

\* chat.py:257-268 and 272-275: a line submitted while a turn is being
\* processed; send_message returns at its first test
SendMessageIgnored ==
    /\ InputHandled
    /\ ~input_disabled
    /\ is_processing
    /\ Len(sends) < MaxSends
    /\ sends' = Append(sends, "ignored")
    /\ UNCHANGED <<is_processing, current_stream, input_disabled, auto_approve_tools,
                   pending_tool_event, event_set, tool_decision, current_tool_panel,
                   panel_mounted, handlers, stop_pc, tasks, widgets, submits, execs,
                   nevents, nstops>>
    /\ UNCHANGED <<bridgeVars, cliVars, limits>>

\* chat.py:303-311 and 329-389: client.send_message returned and
\* _handle_response opens the first connection
SendApiReturns(t) ==
    /\ tasks[t].kind = "send"
    /\ tasks[t].pc = "send_api"
    /\ Len(handlers) < limits.handlers
    /\ Commit(OpenStream(World, t))
    /\ UNCHANGED <<stop_pc, nevents, nstops, sends>>
    /\ UNCHANGED <<bridgeVars, cliVars, limits>>

\* chat.py:313-321: client.send_message raised
SendApiRaises(t) ==
    /\ tasks[t].kind = "send"
    /\ tasks[t].pc = "send_api"
    /\ Commit([Mount(World, Widget("error", t, "final")) EXCEPT
                  !.tasks[t] = Returned(tasks[t]),
                  !.is_processing = FALSE,
                  !.input_disabled = FALSE])
    /\ UNCHANGED <<stop_pc, nevents, nstops, sends>>
    /\ UNCHANGED <<bridgeVars, cliVars, limits>>

\* chat.py:138-193: _check_pending_tools finds a pending tool request
CheckPendingTools(t) ==
    /\ tasks[t].kind = "check"
    /\ tasks[t].pc = "start"
    /\ Commit(HandleToolRequest(World, t))
    /\ UNCHANGED <<stop_pc, nevents, nstops, sends>>
    /\ UNCHANGED <<bridgeVars, cliVars, limits>>

\* chat.py:195-204: _reconnect_stream starts running
ReconnectStream(t) ==
    /\ tasks[t].kind = "reconnect"
    /\ tasks[t].pc = "start"
    /\ Len(handlers) < limits.handlers
    /\ Commit(OpenStream([World EXCEPT !.is_processing = TRUE,
                                       !.input_disabled = TRUE], t))
    /\ UNCHANGED <<stop_pc, nevents, nstops, sends>>
    /\ UNCHANGED <<bridgeVars, cliVars, limits>>

\* stream.py:64 seen from the controller: stream() yields only while the
\* handler is not closed
Streaming(t) ==
    /\ tasks[t].pc = "streaming"
    /\ handlers[tasks[t].handler].state = "started"

\* chat.py:389-491: the stream yields one event and the loop body runs up
\* to the next suspension of the task
ConsumeEvent(t, e) ==
    /\ Streaming(t)
    /\ nevents < limits.events
    /\ Commit(OnEvent(World, t, e, nevents + 1))
    /\ nevents' = nevents + 1
    /\ UNCHANGED <<stop_pc, nstops, sends>>
    /\ UNCHANGED <<bridgeVars, cliVars, limits>>

\* a loop whose for/else clause leaves done unset
StreamExhausted_reconnects(t) ==
    /\ tasks[t].pc = "streaming"
    /\ Commit(LeaveStream(World, t, FALSE))
    /\ UNCHANGED <<stop_pc, nevents, nstops, sends>>
    /\ UNCHANGED <<bridgeVars, cliVars, limits>>

\* chat.py:485-487: the stream ends without a break (the connection ended,
\* or the handler was closed by stop_operation)
StreamExhausted(t) ==
    /\ tasks[t].pc = "streaming"
    /\ Commit(LeaveStream(World, t, TRUE))
    /\ UNCHANGED <<stop_pc, nevents, nstops, sends>>
    /\ UNCHANGED <<bridgeVars, cliVars, limits>>

\* chat.py:555-568: the approval panel posts the user's decision
DecisionArrives(d) ==
    /\ \E t \in Tasks : panel_mounted[t]
    /\ tool_decision' = d
    /\ event_set' = IF pending_tool_event # 0
                    THEN [event_set EXCEPT ![pending_tool_event] = TRUE]
                    ELSE event_set
    /\ UNCHANGED <<is_processing, current_stream, input_disabled, auto_approve_tools,
                   pending_tool_event, current_tool_panel, panel_mounted, handlers,
                   stop_pc, tasks, widgets, submits, execs, nevents, nstops, sends>>
    /\ UNCHANGED <<bridgeVars, cliVars, limits>>

\* chat.py:532-553: the task waiting for the decision resumes
DecisionReceived(t) ==
    /\ tasks[t].pc = "decision"
    /\ event_set[t]
    /\ Commit(ResumeAfterDecision(World, t))
    /\ UNCHANGED <<stop_pc, nevents, nstops, sends>>
    /\ UNCHANGED <<bridgeVars, cliVars, limits>>

\* an execute that lets the exception of the tool reach _handle_response,
\* whose except clause ends the turn (chat.py:489-491)
ToolReturns_propagates(t, outcome) ==
    /\ tasks[t].pc = "tool_exec"
    /\ LET W1 == [World EXCEPT
                     !.execs = Append(@, [call_id |-> tasks[t].tool_request.call_id,
                                          outcome |-> outcome])]
       IN  IF outcome = "raise"
           THEN Commit(LeaveStream(Mount(W1, Widget("error", t, "final")), t, TRUE))
           ELSE Commit([W1 EXCEPT
                           !.tasks[t].pc = "submit",
                           !.tasks[t].result =
                               [success |-> outcome = "success",
                                error |-> IF outcome = "success" THEN None
                                          ELSE "tool failed"],
                           !.tasks[t].exec_ret =
                               ExecReturn(outcome = "success", "of_output")])
    /\ UNCHANGED <<stop_pc, nevents, nstops, sends>>
    /\ UNCHANGED <<bridgeVars, cliVars, limits>>

\* tools.py:57-81: tool.execute finished in the executor thread
ToolReturns(t, outcome) ==
    /\ tasks[t].pc = "tool_exec"
    /\ Commit([World EXCEPT
                  !.execs = Append(@, [call_id |-> tasks[t].tool_request.call_id,
                                       outcome |-> outcome]),
                  !.tasks[t].pc = "submit",
                  !.tasks[t].result =
                      [success |-> outcome = "success",
                       error |-> CASE outcome = "success" -> None
                                   [] outcome = "failure" -> "tool failed"
                                   [] outcome = "raise" -> "exception"],
                  !.tasks[t].exec_ret =
                      IF outcome = "raise" THEN ExecReturn(FALSE, None)
                      ELSE ExecReturn(outcome = "success", "of_output")])
    /\ UNCHANGED <<stop_pc, nevents, nstops, sends>>
    /\ UNCHANGED <<bridgeVars, cliVars, limits>>

\* a submission that always reports success
SubmitReturns_reportsSuccess(t, returned) ==
    /\ tasks[t].pc = "submit"
    /\ LET W1 == [World EXCEPT
                     !.submits = Append(@, [call_id |-> tasks[t].tool_request.call_id,
                                            success |-> TRUE,
                                            error |-> tasks[t].result.error,
                                            ok |-> returned]),
                     !.tasks[t].submitted = IF returned THEN "ok" ELSE "raised"]
       IN  Commit(AfterHandshake(W1, t))
    /\ UNCHANGED <<stop_pc, nevents, nstops, sends>>
    /\ UNCHANGED <<bridgeVars, cliVars, limits>>

\* tools.py:89-110: client.submit_tool_result returned or raised; the
\* exception is reported as a message and swallowed
SubmitReturns(t, returned) ==
    /\ tasks[t].pc = "submit"
    /\ LET W1 == [World EXCEPT
                     !.submits = Append(@, [call_id |-> tasks[t].tool_request.call_id,
                                            success |-> tasks[t].result.success,
                                            error |-> tasks[t].result.error,
                                            ok |-> returned]),
                     !.tasks[t].submitted = IF returned THEN "ok" ELSE "raised"]
       IN  Commit(AfterHandshake(W1, t))
    /\ UNCHANGED <<stop_pc, nevents, nstops, sends>>
    /\ UNCHANGED <<bridgeVars, cliVars, limits>>

\* chat.py:497-499 and 384-389: the reconnection delay has passed and the
\* loop opens the next connection
Reconnect(t) ==
    /\ tasks[t].pc = "delay"
    /\ Len(handlers) < limits.handlers
    /\ Commit(OpenStream(World, t))
    /\ UNCHANGED <<stop_pc, nevents, nstops, sends>>
    /\ UNCHANGED <<bridgeVars, cliVars, limits>>

\* chat.py:383-499: the task is inside the reconnection loop of
\* _handle_response
InHandleResponse(t) ==
    /\ tasks[t].kind \in {"send", "reconnect"}
    /\ tasks[t].pc \in {"streaming", "decision", "tool_exec", "submit", "delay"}

\* chat.py:593-604: stop_operation up to its suspension.  The field stopped
\* records the _handle_response loops that were running at the call.
StopOperation ==
    /\ EventLoopFree
    /\ InputHandled
    /\ stop_pc = "idle"
    /\ nstops < limits.stops
    /\ nstops' = nstops + 1
    /\ handlers' = IF current_stream # 0
                   THEN [handlers EXCEPT ![current_stream].state = "closed"]
                   ELSE handlers
    /\ IF is_processing
       THEN /\ stop_pc' = "awaiting"
            /\ UNCHANGED is_processing
       ELSE /\ is_processing' = FALSE
            /\ UNCHANGED stop_pc
    /\ tasks' = [t \in Tasks |->
                    IF InHandleResponse(t) THEN [tasks[t] EXCEPT !.stopped = TRUE]
                    ELSE tasks[t]]
    /\ UNCHANGED <<current_stream, input_disabled, auto_approve_tools,
                   pending_tool_event, event_set, tool_decision, current_tool_panel,
                   panel_mounted, widgets, submits, execs, nevents, sends>>
    /\ UNCHANGED <<bridgeVars, cliVars, limits>>

\* a stop_operation that leaves the flag alone after the request
StopReturns_keeps ==
    /\ stop_pc = "awaiting"
    /\ stop_pc' = "idle"
    /\ UNCHANGED <<is_processing, current_stream, input_disabled, auto_approve_tools,
                   pending_tool_event, event_set, tool_decision, current_tool_panel,
                   panel_mounted, handlers, tasks, widgets, submits, execs,
                   nevents, nstops, sends>>
    /\ UNCHANGED <<bridgeVars, cliVars, limits>>

\* chat.py:605-609: client.stop_conversation returned, or it raised and
\* the exception was swallowed: both continue at line 608
StopReturns ==
    /\ stop_pc = "awaiting"
    /\ stop_pc' = "idle"
    /\ is_processing' = FALSE
    /\ UNCHANGED <<current_stream, input_disabled, auto_approve_tools,
                   pending_tool_event, event_set, tool_decision, current_tool_panel,
                   panel_mounted, handlers, tasks, widgets, submits, execs,
                   nevents, nstops, sends>>
    /\ UNCHANGED <<bridgeVars, cliVars, limits>>

\* commands.py:90-94: the /approve-all command
ApproveAllCommand ==
    /\ InputHandled
    /\ ~input_disabled
    /\ ~auto_approve_tools
    /\ auto_approve_tools' = TRUE
    /\ UNCHANGED <<is_processing, current_stream, input_disabled,
                   pending_tool_event, event_set, tool_decision, current_tool_panel,
                   panel_mounted, handlers, stop_pc, tasks, widgets, submits, execs,
                   nevents, nstops, sends>>
    /\ UNCHANGED <<bridgeVars, cliVars, limits>>

\* Widget.remove_children on the message list: the first n widgets are
\* taken out of the screen (the tasks keep their references to them)
RECURSIVE RemoveUpTo(_, _)
RemoveUpTo(ws, n) ==
    IF n = 0 THEN ws
    ELSE [RemoveUpTo(ws, n - 1) EXCEPT ![n].mounted = FALSE]

\* chat.py:618-620: action_clear (ctrl+l, which the approval panel does not
\* bind): every child of the message list is removed, the approval panel
\* of a pending handshake included, which is mounted on that list
\* (chat.py:527)
ActionClear ==
    /\ InputHandled
    /\ widgets' = RemoveUpTo(widgets, Len(widgets))
    /\ panel_mounted' = [t \in Tasks |-> FALSE]
    /\ \/ widgets' # widgets
       \/ panel_mounted' # panel_mounted
    /\ UNCHANGED <<is_processing, current_stream, input_disabled, auto_approve_tools,
                   pending_tool_event, event_set, tool_decision, current_tool_panel,
                   handlers, stop_pc, tasks, submits, execs, nevents, nstops, sends>>
    /\ UNCHANGED <<bridgeVars, cliVars, limits>>

TuiEvents == ControlEvents(nevents + 1)

Next ==
    \/ SendMessage
    \/ \E t \in Tasks : SendApiReturns(t)
    \/ \E t \in Tasks : SendApiRaises(t)
    \/ \E t \in Tasks : CheckPendingTools(t)
    \/ \E t \in Tasks : ReconnectStream(t)
    \/ \E t \in Tasks : \E e \in TuiEvents : ConsumeEvent(t, e)
    \/ \E t \in Tasks : StreamExhausted(t)
    \/ \E d \in Approvals : DecisionArrives(d)
    \/ \E t \in Tasks : DecisionReceived(t)
    \/ \E t \in Tasks : \E o \in ToolOutcomes : ToolReturns(t, o)
    \/ \E t \in Tasks : \E r \in BOOLEAN : SubmitReturns(t, r)
    \/ \E t \in Tasks : Reconnect(t)
    \/ StopOperation
    \/ StopReturns
    \/ ApproveAllCommand

Init == TuiStart /\ BridgeIdle /\ CliIdle

Spec == Init /\ [][Next]_vars

\* one turn on its own, with every kind of event
TurnEvents == PhaseEvents \cup ControlEvents(nevents + 1)

NextTurn ==
    \/ \E t \in Tasks : SendApiReturns(t)
    \/ \E t \in Tasks : SendApiRaises(t)
    \/ \E t \in Tasks : \E e \in TurnEvents : ConsumeEvent(t, e)
    \/ \E t \in Tasks : StreamExhausted(t)
    \/ \E d \in Approvals : DecisionArrives(d)
    \/ \E t \in Tasks : DecisionReceived(t)
    \/ \E t \in Tasks : \E o \in ToolOutcomes : ToolReturns(t, o)
    \/ \E t \in Tasks : \E r \in BOOLEAN : SubmitReturns(t, r)
    \/ \E t \in Tasks : Reconnect(t)
    \/ StopOperation
    \/ StopReturns
    \/ ApproveAllCommand

InitTurn == TurnStart /\ BridgeIdle /\ CliIdle

SpecTurn == InitTurn /\ [][NextTurn]_vars

\* one turn on its own, with the events that drive the reconnection loop
NextLoop ==
    \/ \E t \in Tasks : SendApiReturns(t)
    \/ \E t \in Tasks : SendApiRaises(t)
    \/ \E t \in Tasks : \E e \in TuiEvents : ConsumeEvent(t, e)
    \/ \E t \in Tasks : StreamExhausted(t)
    \/ \E d \in Approvals : DecisionArrives(d)
    \/ \E t \in Tasks : DecisionReceived(t)
    \/ \E t \in Tasks : \E o \in ToolOutcomes : ToolReturns(t, o)
    \/ \E t \in Tasks : \E r \in BOOLEAN : SubmitReturns(t, r)
    \/ \E t \in Tasks : Reconnect(t)
    \/ StopOperation
    \/ StopReturns
    \/ ApproveAllCommand

InitLoop == LoopStart /\ BridgeIdle /\ CliIdle

SpecLoop == InitLoop /\ [][NextLoop]_vars

\* what the turn may rely on: the calls to the server return or raise
\* (client.py: every request has a timeout), every connection delivers an
\* event or ends, the user decides on a mounted approval panel, the tools
\* return (they run with timeouts), and the event loop resumes a task that
\* can run (the decision event is set, the reconnection delay has passed)
FairLoop ==
    /\ WF_vars(\E t \in Tasks : SendApiReturns(t) \/ SendApiRaises(t))
    /\ WF_vars(\E t \in Tasks :
                  \/ \E e \in TuiEvents : ConsumeEvent(t, e)
                  \/ StreamExhausted(t))
    /\ WF_vars(\E d \in Approvals : DecisionArrives(d))
    /\ WF_vars(\E t \in Tasks : DecisionReceived(t))
    /\ WF_vars(\E t \in Tasks : \E o \in ToolOutcomes : ToolReturns(t, o))
    /\ WF_vars(\E t \in Tasks : \E r \in BOOLEAN : SubmitReturns(t, r))
    /\ WF_vars(\E t \in Tasks : Reconnect(t))

\* one turn with the events that drive the reconnection loop, under the
\* fairness above
InitTerm == /\ TurnState
            /\ limits = Limits(MaxTermHandlers, MaxTermEvents, MaxTermStops)
            /\ BridgeIdle
            /\ CliIdle

SpecTerm == InitTerm /\ [][NextLoop]_vars /\ FairLoop

\* one turn with the events that drive the reconnection loop, on a screen
\* whose message list the user may clear
NextScreen ==
    \/ NextLoop
    \/ ActionClear

SpecScreen == InitLoop /\ [][NextScreen]_vars

\* one turn with the events that drive the reconnection loop, on a screen
\* whose input line the user keeps submitting
NextSend ==
    \/ NextLoop
    \/ SendMessageIgnored

SpecSend == InitTerm /\ [][NextSend]_vars

\* one turn on its own with every kind of event; the user only answers the
\* approval panel
NextPhase ==
    \/ \E t \in Tasks : SendApiReturns(t)
    \/ \E t \in Tasks : SendApiRaises(t)
    \/ \E t \in Tasks : \E e \in TurnEvents : ConsumeEvent(t, e)
    \/ \E t \in Tasks : StreamExhausted(t)
    \/ \E d \in Approvals : DecisionArrives(d)
    \/ \E t \in Tasks : DecisionReceived(t)
    \/ \E t \in Tasks : \E o \in ToolOutcomes : ToolReturns(t, o)
    \/ \E t \in Tasks : \E r \in BOOLEAN : SubmitReturns(t, r)
    \/ \E t \in Tasks : Reconnect(t)

InitPhase == PhaseStart /\ BridgeIdle /\ CliIdle

SpecPhase == InitPhase /\ [][NextPhase]_vars

\* ------------------------------------------------------------------------
\* The specifications
\* ------------------------------------------------------------------------
InitBridge == BridgeStart /\ CliIdle /\ TuiIdle

SpecBridge == InitBridge /\ [][BridgeNext]_vars

\* stream.py:26-51: the worker thread runs whenever it is not blocked in a
\* read; stream.py:63-83 under `async for`: the consumer asks for the next
\* item and the event loop resumes the generator after its sleep
FairBridge ==
    /\ WF_vars(\/ WorkerCreate \/ WorkerConnect \/ WorkerReadRecord
               \/ WorkerReadEof \/ WorkerReadRaise \/ WorkerReadCancelled
               \/ WorkerCheckClosed \/ WorkerPut \/ WorkerFinally)
    /\ WF_vars(StreamStart \/ StreamSeesClosed \/ StreamPoll \/ StreamResume)

\* one StreamHandler on a short connection, under the fairness above
InitSentinel == BridgeStartWith(MaxSentinelWire) /\ CliIdle /\ TuiIdle

SpecSentinel == InitSentinel /\ [][BridgeNext]_vars /\ FairBridge

\* sse_handler.py:23-46 and 60-85: the worker thread of the legacy handler
\* runs whenever it is not blocked in a read, and its stream() is iterated
\* with `async for`
FairLegacy ==
    /\ WF_vars(\/ LegacyWorkerCreate \/ LegacyWorkerConnect \/ LegacyWorkerRead
               \/ LegacyWorkerPut \/ LegacyWorkerFinally)
    /\ WF_vars(LegacyStreamStart \/ LegacyStreamGet \/ LegacyStreamResume)

\* stream.py:26-83, as FairBridge, for a handler nobody closes from outside
FairStreamHandler ==
    /\ WF_vars(\/ WorkerCreate \/ WorkerConnect \/ WorkerReadRecord
               \/ WorkerReadEof \/ WorkerReadRaise \/ WorkerCheckClosed
               \/ WorkerPut \/ WorkerFinally)
    /\ WF_vars(StreamStart \/ StreamPoll \/ StreamResume)

\* a StreamHandler and an SSEHandler, each on a connection that delivers
\* the same records and ends the same way; close() is called on neither
\* from outside its stream()
NextHandlers ==
    \/ StreamHandlerNext
    \/ LegacyNext

InitHandlers == BridgeStartWith(MaxLegacyWire) /\ CliIdle /\ TuiIdle

SpecHandlers ==
    InitHandlers /\ [][NextHandlers]_vars /\ FairStreamHandler /\ FairLegacy

InitCli == CliStart /\ BridgeIdle /\ TuiIdle

SpecCli == InitCli /\ [][CliNext]_vars

\* one StreamHandler, and a screen with no turn running on which
\* stop_operation is called
NextClose ==
    \/ BridgeNext
    \/ StopOperation

InitClose == /\ BridgeStartWith(MaxCloseWire)
             /\ CliIdle
             /\ TuiQuiet
             /\ limits = Limits(0, 0, MaxCloseStops)

SpecClose == InitClose /\ [][NextClose]_vars

\* one turn of either driver: the CLI driver, or the TUI controller
\* without user commands
NextDrivers ==
    \/ CliNext
    \/ NextPhase

InitDrivers ==
    \/ CliStart /\ BridgeIdle /\ TuiQuiet /\ limits = DriverLimits
    \/ InitPhase

SpecDrivers == InitDrivers /\ [][NextDrivers]_vars

\* ------------------------------------------------------------------------
\* Properties of the bridge
\* ------------------------------------------------------------------------

\* the items of a yielded sequence that came from the transport (the
\* ("error", ...) item is made by the worker, stream.py:49)
TransportPart(y) == SelectSeq(y, LAMBDA x : x # "error")

\* the transport raised (refused connection or failed read)
TransportRaises == ending \in {"raise", "refuse"}

\* C8: with no close() call from outside, stream() yields the events that
\* SSEClient.events() produces for the connection, each once and in the
\* order of emission: what has been yielded so far is always a prefix of
\* that sequence, and when stream() has ended it is the whole sequence
\* (followed by the worker's error item exactly when the transport raised).
C8_StreamPreservesEvents ==
    extClose = 0 =>
        /\ IsPrefix(TransportPart(yielded), Events(wire))
        /\ consumer = "done" =>
              yielded = Events(wire) \o (IF TransportRaises /\ ~(\E i \in 1..Len(wire) : RecordEnds(wire[i]))
                                         THEN << "error" >> ELSE <<>>)

C8_Witness ==
    /\ extClose = 0
    /\ consumer = "done"
    /\ Len(yielded) >= 3
    /\ yielded[1] # yielded[2]

\* C9: once close() has returned (the flag is set), stream() yields nothing
\* more, whatever the worker enqueues afterwards.
C9_NoYieldAfterClose == [][closed => yielded' = yielded]_vars

C9_Witness ==
    /\ extClose > 0
    /\ consumer = "done"
    /\ thread = "done"
    /\ Len(queue) >= 2

\* C10: after close() has returned the worker is never left in a blocking
\* read of a response that is still open (a read that only a further
\* record, the end of input or a timeout can end).
C10_CloseCancelsRead == ~(closed /\ thread = "read" /\ conn = "open")

\* ------------------------------------------------------------------------
\* Properties of the CLI driver
\* ------------------------------------------------------------------------

\* some submit_tool_result call for this call id returned without raising
CliSubmitted(id) ==
    \E i \in 1..Len(cli_submits) : cli_submits[i].call_id = id /\ cli_submits[i].ok

\* execute_tool_request has run for the request held in pending_tool_request
CliHandled == pending_tool_request # NoRequest /\ cli_pc \in {"connect", "returned"}

\* C5: in handle_sse_events a new SSEClient is created after a tool request
\* only if execute_tool_request returned "continue"; it returns "continue"
\* only if some submit_tool_result call for the request's call id returned
\* without raising; and when no submission returned, handle_sse_events has
\* returned "error" (and opens no connection afterwards).
C5_CliReconnectsOnlyAfterSubmission ==
    /\ [](CliHandled /\ tool_result_status = "continue"
              => CliSubmitted(pending_tool_request.call_id))
    /\ [](CliHandled /\ ~CliSubmitted(pending_tool_request.call_id)
              => cli_pc = "returned" /\ cli_result = "error")
    /\ [][cli_conns' > cli_conns /\ pending_tool_request # NoRequest
              => tool_result_status = "continue"
                 /\ CliSubmitted(pending_tool_request.call_id)]_vars
    /\ [][cli_pc = "returned" => cli_conns' = cli_conns]_vars

\* a request whose first submission raised and whose second one returned,
\* after which the driver reconnected
C5_Witness ==
    /\ cli_pc = "streaming"
    /\ cli_conns >= 2
    /\ \E i \in 1..Len(cli_submits) : \E j \in 1..Len(cli_submits) :
         /\ i < j
         /\ cli_submits[i].call_id = cli_submits[j].call_id
         /\ ~cli_submits[i].ok
         /\ cli_submits[j].ok

\* ------------------------------------------------------------------------
\* Properties of the TUI controller
\* ------------------------------------------------------------------------

\* the StreamHandler objects that have been started and not closed
StartedHandlers == { h \in DOMAIN handlers : handlers[h].state = "started" }

\* the task is inside _handle_tool_request or the ToolExecutor call it makes
InHandshake(t) == tasks[t].pc \in {"decision", "tool_exec", "submit"}

\* C1: at most one StreamHandler of the screen is started and not closed.
C1_AtMostOneStartedHandler == Cardinality(StartedHandlers) <= 1

\* C2: while _handle_response is inside the handshake for a tool request,
\* the StreamHandler that delivered the request is closed.
C2_HandlerClosedBeforeHandshake ==
    \A t \in Tasks :
        InHandshake(t) /\ tasks[t].handler # 0
            => handlers[tasks[t].handler].state = "closed"

\* C3: no approval handshake is pending and no client-side tool is
\* executing while any StreamHandler of the screen is started and not
\* closed.
C3_NoHandshakeWhileReading ==
    (\E t \in Tasks : tasks[t].pc \in {"decision", "tool_exec"})
        => StartedHandlers = {}

\* C4: _handle_response waits to reconnect after a tool request only when
\* submit_tool_result for the request returned without raising.
C4_ReconnectOnlyAfterSubmission ==
    \A t \in Tasks : tasks[t].pc = "delay" => tasks[t].submitted = "ok"

\* C6: once a task has consumed completed, failed or cancelled its
\* _handle_response has returned, and no StreamHandler is created by it
\* afterwards.
C6_TerminalEventEndsTurn ==
    /\ [](\A t \in Tasks : tasks[t].terminal => tasks[t].pc = "done")
    /\ [][\A t \in Tasks : tasks[t].terminal =>
             \A h \in DOMAIN handlers' :
                 handlers'[h].owner = t => h \in DOMAIN handlers]_vars

\* a turn that reconnected after a tool request and then ended with a
\* terminal event
C6_Witness ==
    \E t \in Tasks :
        /\ tasks[t].terminal
        /\ tasks[t].pc = "done"
        /\ Cardinality({ h \in DOMAIN handlers : handlers[h].owner = t }) >= 2
        /\ Len(submits) >= 1

\* the widgets mounted by the _handle_response of task t
WidgetsOf(t) == { i \in DOMAIN widgets : widgets[i].owner = t }

\* C7: when _handle_response has returned after completed, failed or
\* cancelled, every ThinkingBlock it created is finalized, every ChatMessage
\* it created has streaming off, and no ToolStatusWidget it created is
\* still "executing".
C7_NoUnfinalizedPhase ==
    \A t \in Tasks :
        tasks[t].terminal /\ tasks[t].pc = "done" =>
            \A i \in WidgetsOf(t) :
                /\ widgets[i].kind = "thinking" => widgets[i].state = "finalized"
                /\ widgets[i].kind = "message" => widgets[i].state = "final"
                /\ widgets[i].kind = "tool" => widgets[i].state # "executing"

\* C11: a _handle_response loop that was running when stop_operation was
\* called creates no StreamHandler afterwards.
C11_NoStreamAfterStop ==
    [][\A t \in Tasks : tasks[t].stopped =>
          \A h \in DOMAIN handlers' :
              handlers'[h].owner = t => h \in DOMAIN handlers]_vars

\* the calls of submit_tool_result in s that carry this call id
SubmitCount(s, id) == Cardinality({ i \in DOMAIN s : s[i].call_id = id })

\* the request of task t has a name and a call id and was approved
ApprovedRequest(t) ==
    /\ tasks[t].approved
    /\ HasName(tasks[t].tool_request)
    /\ HasCallId(tasks[t].tool_request)

\* the handshake of task t is over and its next connection is not open yet
AwaitsReconnect(t) ==
    \/ tasks[t].pc = "delay"
    \/ tasks[t].kind = "reconnect" /\ tasks[t].pc = "start"

\* C12: for an approved tool request with a name and a call id,
\* submit_tool_result is called exactly once with that call id (not before
\* the handshake has run the tool, once when it is over), the handshake is
\* followed by the wait for reconnection, and that wait ends by opening
\* exactly one StreamHandler of the task with no event consumed in between.
C12_ApproveSubmitsOnceAndReconnects ==
    /\ [](\A t \in Tasks :
            ApprovedRequest(t) /\ tasks[t].pc \in {"tool_exec", "submit"}
                => SubmitCount(submits, tasks[t].tool_request.call_id) = 0)
    /\ [](\A t \in Tasks :
            ApprovedRequest(t) /\ AwaitsReconnect(t)
                => SubmitCount(submits, tasks[t].tool_request.call_id) = 1)
    /\ [][\A t \in Tasks :
            ApprovedRequest(t) /\ tasks[t].pc = "submit" /\ tasks'[t].pc # "submit"
                => AwaitsReconnect(t)']_vars
    /\ [][\A t \in Tasks :
            AwaitsReconnect(t) /\ ~AwaitsReconnect(t)'
                => /\ tasks'[t].pc = "streaming"
                   /\ Len(handlers') = Len(handlers) + 1
                   /\ handlers'[Len(handlers')] = [state |-> "started", owner |-> t]
                   /\ tasks'[t].handler = Len(handlers')
                   /\ nevents' = nevents]_vars

\* a tool was approved and ran, its result was submitted, and the task
\* reads from the StreamHandler it opened afterwards
C12_Witness ==
    \E t \in Tasks :
        /\ tasks[t].pc = "streaming"
        /\ handlers[tasks[t].handler].state = "started"
        /\ Cardinality({ h \in DOMAIN handlers : handlers[h].owner = t }) >= 2
        /\ \E i \in DOMAIN submits : submits[i].success /\ submits[i].ok

\* chat.py:533, 544-553: the task record tk has read a decision that is
\* neither "yes" nor "all"
Rejected(tk) == tk.decision \notin {"unread", "yes", "all"}

\* the ToolResult that ToolExecutor.reject submits
RefusalOf(req, returned) == Submission(req, FALSE, "refused", returned)

\* C13 as stated: after a Reject decision exactly one ToolResult has been
\* submitted for the request when the handshake is over, whatever the
\* request carries.
C13_RejectSubmitsRefusal ==
    \A t \in Tasks :
        Rejected(tasks[t]) /\ AwaitsReconnect(t)
            => SubmitCount(submits, tasks[t].tool_request.call_id) = 1

\* C13 amended: for a request that carries a call id, a Reject decision
\* leads to the submission of exactly one ToolResult with success false and
\* the refusal error for that call id, and the tool is never executed for
\* it.
C13_RejectWithCallIdSubmitsRefusal ==
    /\ [][\A t \in Tasks :
            /\ tasks[t].pc = "decision" /\ tasks'[t].pc # "decision"
            /\ Rejected(tasks'[t]) /\ HasCallId(tasks[t].tool_request)
            => /\ tasks'[t].pc = "submit"
               /\ tasks'[t].tool_request = tasks[t].tool_request
               /\ SubmitCount(submits', tasks[t].tool_request.call_id) = 0]_vars
    /\ [][\A t \in Tasks :
            /\ tasks[t].pc = "submit" /\ tasks'[t].pc # "submit"
            /\ Rejected(tasks[t])
            => \E r \in BOOLEAN :
                  submits' = Append(submits, RefusalOf(tasks[t].tool_request, r))]_vars
    /\ [](\A i \in DOMAIN submits :
            submits[i].error = "refused"
                => /\ SubmitCount(submits, submits[i].call_id) = 1
                   /\ \A j \in DOMAIN execs : execs[j].call_id # submits[i].call_id)

\* a refusal was submitted and the loop went on to reconnect
C13_Witness ==
    \E t \in Tasks :
        /\ Rejected(tasks[t])
        /\ tasks[t].pc = "delay"
        /\ SubmitCount(submits, tasks[t].tool_request.call_id) = 1
        /\ \E i \in DOMAIN submits : submits[i].error = "refused" /\ ~submits[i].success

\* tools.py:51: the request of task record tk was approved and names a tool
\* that is not in the registry
UnknownApproved(tk) ==
    /\ tk.approved
    /\ HasName(tk.tool_request)
    /\ ~Registered(tk.tool_request)

\* C14 as stated: when the handshake of an approved request for an
\* unregistered tool is over, exactly one ToolResult has been submitted for
\* it, whatever else the request carries.
C14_UnknownToolSubmitsError ==
    \A t \in Tasks :
        UnknownApproved(tasks[t]) /\ AwaitsReconnect(t)
            => SubmitCount(submits, tasks[t].tool_request.call_id) = 1

\* C14 amended: for an approved request that carries a call id and names an
\* unregistered tool, no tool is executed, execute returns (False, None),
\* and exactly one ToolResult with success false and the unknown-tool error
\* is submitted for the call id.
C14_UnknownToolWithCallIdSubmitsError ==
    \A t \in Tasks :
        LET req == tasks[t].tool_request
        IN  UnknownApproved(tasks[t]) /\ HasCallId(req) =>
              /\ tasks[t].pc = "submit" \/ AwaitsReconnect(t)
              /\ tasks[t].exec_ret = ExecReturn(FALSE, None)
              /\ \A j \in DOMAIN execs : execs[j].call_id # req.call_id
              /\ tasks[t].pc = "submit" =>
                    /\ SubmitCount(submits, req.call_id) = 0
                    /\ tasks[t].result = [success |-> FALSE, error |-> "unknown tool"]
              /\ AwaitsReconnect(t) =>
                    /\ SubmitCount(submits, req.call_id) = 1
                    /\ \E i \in DOMAIN submits : \E r \in BOOLEAN :
                          submits[i] = Submission(req, FALSE, "unknown tool", r)

\* the unknown-tool error of an approved request was submitted
C14_Witness ==
    \E t \in Tasks :
        /\ UnknownApproved(tasks[t])
        /\ HasCallId(tasks[t].tool_request)
        /\ tasks[t].pc = "delay"
        /\ SubmitCount(submits, tasks[t].tool_request.call_id) = 1

\* the ToolResult submitted for a tool whose execute raised
RaisedResult == [success |-> FALSE, error |-> "exception"]

\* C15: when the execute of a registered tool raised, ToolExecutor.execute
\* returns (False, None), the result it submits has success false and
\* carries the exception, that result is submitted exactly once, and the
\* task goes on to the wait for reconnection.
C15_RaisingToolSubmitsFailure ==
    /\ [](\A j \in DOMAIN execs :
            execs[j].outcome = "raise" =>
                \/ SubmitCount(submits, execs[j].call_id) = 1
                \/ /\ SubmitCount(submits, execs[j].call_id) = 0
                   /\ \E t \in Tasks :
                         /\ tasks[t].tool_request.call_id = execs[j].call_id
                         /\ tasks[t].pc = "submit"
                         /\ tasks[t].result = RaisedResult
                         /\ tasks[t].exec_ret = ExecReturn(FALSE, None))
    /\ [][\A t \in Tasks :
            /\ tasks[t].pc = "submit" /\ tasks'[t].pc # "submit"
            /\ tasks[t].result = RaisedResult
            => /\ \E r \in BOOLEAN :
                     submits' = Append(submits,
                         Submission(tasks[t].tool_request, FALSE, "exception", r))
               /\ AwaitsReconnect(t)'
               /\ tasks'[t].exec_ret = ExecReturn(FALSE, None)]_vars

\* a tool raised, the failure was submitted, and the task waits to
\* reconnect
C15_Witness ==
    \E t \in Tasks :
        /\ tasks[t].pc = "delay"
        /\ tasks[t].exec_ret = ExecReturn(FALSE, None)
        /\ \E j \in DOMAIN execs :
              /\ execs[j] = [call_id |-> tasks[t].tool_request.call_id, outcome |-> "raise"]
              /\ \E i \in DOMAIN submits :
                    submits[i].call_id = execs[j].call_id /\ submits[i].error = "exception"

\* chat.py:155, 187, 451: this step calls _handle_tool_request in task t,
\* from _check_pending_tools or from the tool_request branch of the loop
CallsHandleToolRequest(t) ==
    \/ tasks[t].kind = "check" /\ tasks[t].pc = "start" /\ tasks'[t].pc # "start"
    \/ /\ tasks[t].pc = "streaming"
       /\ tasks[t].tool_request = NoRequest
       /\ tasks'[t].tool_request # NoRequest

\* C16: auto_approve_tools, once true, stays true; and a call of
\* _handle_tool_request made while it is true goes to
\* ToolExecutor.execute at once: no approval panel is mounted, no decision
\* event is created or awaited, and no decision is read.
C16_AutoApproveIsPermanent ==
    /\ [][auto_approve_tools => auto_approve_tools']_vars
    /\ [][auto_approve_tools =>
            \A t \in Tasks :
                /\ panel_mounted'[t] => panel_mounted[t]
                /\ tasks'[t].pc = "decision" => tasks[t].pc = "decision"
                /\ CallsHandleToolRequest(t) =>
                      /\ tasks'[t].approved
                      /\ tasks'[t].decision = "unread"
                      /\ tasks'[t].pc = "tool_exec" \/ tasks'[t].exec_ret.called
                      /\ pending_tool_event' = pending_tool_event
                      /\ current_tool_panel' = current_tool_panel]_vars

\* a second request of the session is executed without a decision while
\* auto_approve_tools is set
C16_Witness ==
    /\ auto_approve_tools
    /\ Len(submits) >= 1
    /\ \E t \in Tasks :
          /\ tasks[t].pc = "tool_exec"
          /\ tasks[t].approved
          /\ tasks[t].decision = "unread"
          /\ ~panel_mounted[t]

\* ------------------------------------------------------------------------
\* Properties of the CLI driver (continued)
\* ------------------------------------------------------------------------

\* C17: in handle_conversation_status, once an approval prompt was answered
\* "all", no later tool request is prompted for, also when the request is
\* handled by handle_polling_status after handle_sse_events raised.
C17_CliNoPromptAfterAll ==
    \A i \in DOMAIN cli_prompts : \A j \in DOMAIN cli_prompts :
        i < j => cli_prompts[i].answer # "all"

\* C18: each call of execute_tool_request that runs the tool of an approved
\* request calls client.submit_tool_result exactly once.
C18_CliSubmitsExactlyOnce ==
    [][cli_execs' # cli_execs => Len(cli_submits') = Len(cli_submits) + 1]_vars

\* ------------------------------------------------------------------------
\* Properties of the phase tracker
\* ------------------------------------------------------------------------

\* the kind of text a widget shows
TextKind(w) == IF w.kind = "thinking" THEN "thinking" ELSE "content"

\* ThinkingBlock.finalize or ChatMessage.set_streaming(False) was called
Finalized(w) == w.state \in {"finalized", "final"}

\* C19: a text chunk that follows an event of another phase kind (the
\* other kind of text, tool_executing, tool_request) goes to a widget
\* mounted for it, not to the widget of the earlier run of its kind; and a
\* finalized widget receives no text.
C19_SeparatedRunsGetNewWidget ==
    /\ [][\A i \in DOMAIN widgets :
            Finalized(widgets[i]) => widgets'[i].text = widgets[i].text]_vars
    /\ [][\A i \in DOMAIN widgets :
            widgets'[i].text # widgets[i].text =>
                tasks[widgets[i].owner].last_separator = TextKind(widgets[i])]_vars

\* C20: when _handle_response opens a StreamHandler after a tool_request
\* event, with or without payload, the current phase is reset and every
\* ThinkingBlock and assistant ChatMessage it has mounted is finalized, so
\* that no text of the new connection can reach them; and the handler is a
\* new object.
C20_PhasesFinalizedBeforeReconnect ==
    [][\A t \in Tasks :
          /\ Len(handlers') > Len(handlers)
          /\ handlers'[Len(handlers')].owner = t
          /\ tasks[t].last_separator = "tool_request"
          => /\ tasks[t].current_phase = None
             /\ \A i \in WidgetsOf(t) :
                   widgets[i].kind \in {"thinking", "message"} => Finalized(widgets[i])
             /\ tasks'[t].handler \notin DOMAIN handlers]_vars

\* C21: a ThinkingBlock is finalized with exactly the thinking chunks, in
\* order, that its _handle_response received since it was mounted; finalize
\* is called at most once on it, and once _handle_response has returned it
\* has been called on every ThinkingBlock it mounted.
C21_ThinkingBlockFinalizedOnceWithItsText ==
    /\ [](\A i \in DOMAIN widgets :
            widgets[i].kind = "thinking" =>
                /\ widgets[i].finalizes = IF widgets[i].state = "finalized" THEN 1 ELSE 0
                /\ widgets[i].state = "finalized" =>
                      widgets[i].text = widgets[i].received
                /\ tasks[widgets[i].owner].pc \in {"idle", "done"} =>
                      widgets[i].state = "finalized")
    /\ [][\A i \in DOMAIN widgets :
            widgets[i].kind = "thinking" /\ widgets[i].state = "finalized" =>
                widgets'[i] = widgets[i]]_vars

\* a ThinkingBlock finalized with the two chunks it received, in order
C21_Witness ==
    \E i \in DOMAIN widgets :
        /\ widgets[i].kind = "thinking"
        /\ widgets[i].state = "finalized"
        /\ Len(widgets[i].text) = 2
        /\ widgets[i].text[1] < widgets[i].text[2]
        /\ widgets[i].finalizes = 1

\* ------------------------------------------------------------------------
\* Properties of the stream transport and bridge (continued)
\* ------------------------------------------------------------------------

\* C22: when events() reads a record whose data does not parse as JSON,
\* whatever the event type of the record, it yields nothing for it and goes
\* on reading the records that follow on the same response.
C22_MalformedRecordIsSkipped ==
    [][rd' = rd + 1 /\ wire[rd'].data = "bad"
          => /\ cur' = None
             /\ thread' = "read"
             /\ response' = response
             /\ conn' = conn]_vars

\* the records of the wire that are events of a terminal type: an event
\* type of TerminalTypes and data
TerminalRecords == { i \in 1..Len(wire) :
                       wire[i].type \in TerminalTypes /\ wire[i].data # "empty" }

\* C23: events() reads no record after the first completed, failed,
\* cancelled or tool_request event of the connection and so yields nothing
\* after it; when the server closes the connection events() returns
\* without an error; and stream() yields nothing after an event that ends
\* the connection.
C23_NothingAfterTerminalEvent ==
    /\ [](\A i \in TerminalRecords : rd <= i)
    /\ [](rd \in TerminalRecords => thread # "read")
    /\ [][thread = "read" /\ thread' = "final" /\ ending = "eof" /\ ~closed
            => queue' = queue]_vars
    /\ [](\A i \in 1..(Len(yielded) - 1) : yielded[i] \notin StreamStopTypes)

\* a connection on which records follow a terminal event: stream() has
\* ended with the terminal event as the last item it yielded
C23_Witness ==
    /\ consumer = "done"
    /\ extClose = 0
    /\ rd \in TerminalRecords
    /\ rd < Len(wire)
    /\ wire[rd + 1].data = "ok"
    /\ yielded # <<>>
    /\ yielded[Len(yielded)] = wire[rd].type

\* stream.py:85-90: the states of a StreamHandler in which close() has
\* nothing left to do
CloseDone == closed /\ ~sse_client

StreamEndsSilently(t) ==
    /\ tasks[t].pc = "streaming"
    /\ tasks'[t].pc # "streaming"
    /\ nevents' = nevents

\* the error messages mounted on the message list
ErrorWidgets == { i \in DOMAIN widgets : widgets[i].kind = "error" }

C26_TransportFailureIsReported ==
    \A t \in Tasks :
        tasks[t].transport_failed /\ tasks[t].pc = "done" =>
            \E i \in ErrorWidgets : widgets[i].owner = t

\* the tasks that wait for the decision of their approval panel
PendingHandshakes == { t \in Tasks : tasks[t].pc = "decision" }

\* the tasks whose ToolExecutor.execute is running a tool
RunningTools == { t \in Tasks : tasks[t].pc = "tool_exec" }

\* C27: on one ChatScreen at most one approval handshake is pending and at
\* most one client-side tool is being executed at any time.
C27_OneHandshakeOneExecution ==
    /\ Cardinality(PendingHandshakes) <= 1
    /\ Cardinality(RunningTools) <= 1

\* C28: when _handle_tool_request returns, in the stream loop as for a
\* resumed request, the task waits the reconnection delay, and the wait ends
\* by opening a new StreamHandler of the task.
C28_HandshakeThenDelayThenFreshStream ==
    /\ [][\A t \in Tasks :
            InHandshake(t) /\ ~InHandshake(t)' => tasks'[t].pc = "delay"]_vars
    /\ [][\A t \in Tasks :
            tasks[t].pc = "delay" /\ tasks'[t].pc # "delay"
                => /\ tasks'[t].pc = "streaming"
                   /\ Len(handlers') = Len(handlers) + 1
                   /\ tasks'[t].handler = Len(handlers')
                   /\ handlers'[Len(handlers')] = [state |-> "started", owner |-> t]]_vars

\* C29: the queue between the worker thread and stream() has a fixed
\* capacity: the number of items put and not yet taken stays below what a
\* stream of MaxWire records can produce, however slow the consumer is.
C29_ChannelIsBounded == Len(queue) <= MaxWire

\* stream.py:64-72: stream() has polled an empty queue and polls again later
StreamIdle == consumer = "poll" /\ queue = <<>>

StopCompletes ==
    \/ nstops' > nstops /\ stop_pc' = "idle"
    \/ stop_pc = "awaiting" /\ stop_pc' = "idle"

Malformed(req) == req # NoRequest /\ (~HasName(req) \/ ~HasCallId(req))

\* C32: ToolExecutor.execute called with a request that lacks the name or
\* the call id returns (False, None) in the same step, without running a
\* tool and without calling submit_tool_result.
C32_MalformedRequestIsDropped ==
    /\ [][\A t \in Tasks :
            /\ ~tasks[t].exec_ret.called /\ tasks'[t].exec_ret.called
            /\ Malformed(tasks'[t].tool_request)
            => /\ tasks'[t].exec_ret = ExecReturn(FALSE, None)
               /\ submits' = submits
               /\ execs' = execs
               /\ ~InHandshake(t)']_vars
    /\ [](\A t \in Tasks :
            tasks[t].approved /\ Malformed(tasks[t].tool_request)
                => /\ ~InHandshake(t) \/ tasks[t].pc = "decision"
                   /\ tasks[t].exec_ret \in {NoReturn, ExecReturn(FALSE, None)})
    /\ [](\A j \in DOMAIN execs : execs[j].call_id # 0)

\* an approved request for a registered tool without call id: execute has
\* returned (False, None), nothing ran and nothing was submitted
C32_Witness ==
    \E t \in Tasks :
        /\ tasks[t].pc = "delay"
        /\ tasks[t].approved
        /\ tasks[t].tool_request.kind = "nocallid"
        /\ tasks[t].exec_ret = ExecReturn(FALSE, None)
        /\ submits = <<>>
        /\ execs = <<>>

\* tools.py:60-64: tool.execute returned (success, output, error)
ReturnedOutcomes == {"success", "failure"}

\* C33: when the execute of a registered tool returns without raising,
\* ToolExecutor.execute returns the success flag of the tool, and it calls
\* submit_tool_result exactly once for the call id of the request, with
\* that same flag.
C33_ToolResultCarriesSuccessFlag ==
    /\ [][\A t \in Tasks : \A o \in ReturnedOutcomes :
            /\ tasks[t].pc = "tool_exec"
            /\ execs' = Append(execs, [call_id |-> tasks[t].tool_request.call_id,
                                       outcome |-> o])
            => /\ tasks'[t].pc = "submit"
               /\ tasks'[t].tool_request = tasks[t].tool_request
               /\ tasks'[t].exec_ret.called
               /\ tasks'[t].exec_ret.success = (o = "success")
               /\ submits' = submits]_vars
    /\ [][\A t \in Tasks :
            /\ tasks[t].pc = "submit" /\ tasks'[t].pc # "submit"
            /\ Registered(tasks[t].tool_request)
            /\ tasks[t].approved
            /\ tasks[t].result.error # "exception"
            => /\ \E r \in BOOLEAN : \E e \in {None, "tool failed"} :
                     submits' = Append(submits,
                         Submission(tasks[t].tool_request, tasks[t].exec_ret.success, e, r))
               /\ tasks'[t].exec_ret = tasks[t].exec_ret]_vars
    /\ [](\A j \in DOMAIN execs :
            execs[j].outcome \in ReturnedOutcomes =>
                /\ SubmitCount(submits, execs[j].call_id) <= 1
                /\ \A i \in DOMAIN submits :
                      submits[i].call_id = execs[j].call_id
                          => submits[i].success = (execs[j].outcome = "success")
                /\ SubmitCount(submits, execs[j].call_id) = 0
                      => \E t \in Tasks :
                            /\ tasks[t].pc = "submit"
                            /\ tasks[t].tool_request.call_id = execs[j].call_id)

\* a tool that succeeded and a tool that reported a failure: each result
\* was submitted once with the flag of the tool
C33_Witness ==
    \E i, j \in DOMAIN submits :
        /\ submits[i].success /\ ~submits[j].success
        /\ submits[j].error = "tool failed"
        /\ \E t \in Tasks :
              /\ tasks[t].pc = "delay"
              /\ tasks[t].exec_ret = ExecReturn(FALSE, "of_output")
              /\ tasks[t].tool_request.call_id = submits[j].call_id

\* ------------------------------------------------------------------------
\* Properties of the phase tracker (continued)
\* ------------------------------------------------------------------------

\* chat.py:411, 425: in this step task t consumes an event of type ty, one
\* of tool_executing and tool_completed
ToolEventStep(t, ty) ==
    /\ nevents' = nevents + 1
    /\ tasks'[t].last_tool.seq = nevents'
    /\ tasks'[t].last_tool.type = ty

\* C34: a tool_executing event finalizes the thinking block and the content
\* message that are open, resets the current phase and mounts a
\* ToolStatusWidget with status "executing"; a tool_completed event whose
\* call id has such a widget completes that widget and mounts nothing; and
\* a completed ToolStatusWidget never changes again.
C34_ToolEventsCloseTextPhase ==
    /\ [][\A t \in Tasks : ToolEventStep(t, "tool_executing") =>
            /\ tasks'[t].current_phase = None
            /\ tasks'[t].thinking_widget = 0
            /\ tasks'[t].content_widget = 0
            /\ ~tasks'[t].md_stream
            /\ \A i \in DOMAIN widgets :
                  widgets[i].owner = t /\ widgets[i].kind \in {"thinking", "message"}
                      => Finalized(widgets'[i])
            /\ Len(widgets') = Len(widgets) + 1
            /\ widgets'[Len(widgets')] = Widget("tool", t, "executing")
            /\ LET c == tasks'[t].last_tool.call
               IN  c # 0 => tasks'[t].tool_widgets[c] = Len(widgets')]_vars
    /\ [][\A t \in Tasks : ToolEventStep(t, "tool_completed") =>
            LET c == tasks'[t].last_tool.call
                tw == IF c # 0 THEN tasks[t].tool_widgets[c] ELSE 0
            IN  tw # 0 =>
                  /\ widgets[tw].kind = "tool"
                  /\ widgets[tw].owner = t
                  /\ widgets' = [widgets EXCEPT ![tw].state = "completed"]]_vars
    /\ [][\A i \in DOMAIN widgets :
            widgets[i].kind = "tool" /\ widgets[i].state = "completed"
                => widgets'[i] = widgets[i]]_vars

\* a thinking chunk, then tool_executing and tool_completed with the same
\* call id: the block is finalized and the one tool widget is completed
C34_Witness ==
    \E t \in Tasks :
        /\ tasks[t].last_tool = [type |-> "tool_completed", call |-> 1, seq |-> 3]
        /\ tasks[t].current_phase = None
        /\ Len(widgets) = 2
        /\ widgets[1].kind = "thinking" /\ widgets[1].state = "finalized"
        /\ widgets[2].kind = "tool" /\ widgets[2].state = "completed"

\* ------------------------------------------------------------------------
\* Termination of the reconnection loop
\* ------------------------------------------------------------------------

\* chat.py:297-321: the coroutine of task t has been started and has not
\* returned
Running(t) == tasks[t].pc \notin {"idle", "done"}

\* C35: when the stream delivers finitely many events, every connection
\* ends and every approval panel gets a decision, a turn that was started
\* returns.
C35_TurnTerminates == \A t \in Tasks : Running(t) ~> tasks[t].pc = "done"

\* a turn that has returned after opening as many connections as the
\* tool requests of the stream asked for: one more than there were events
C35_Witness ==
    \E t \in Tasks :
        /\ tasks[t].pc = "done"
        /\ nevents = MaxTermEvents
        /\ Cardinality({ h \in DOMAIN handlers : handlers[h].owner = t }) = MaxTermEvents + 1

\* ------------------------------------------------------------------------
\* Properties of the CLI driver (continued)
\* ------------------------------------------------------------------------

\* C36: in one run of handle_conversation_status no call id has its tool
\* executed twice.
C36_CliExecutesCallOnce ==
    \A i, j \in DOMAIN cli_execs : cli_execs[i] = cli_execs[j] => i = j

\* ------------------------------------------------------------------------
\* Properties of the approval handshake (continued)
\* ------------------------------------------------------------------------

\* chat.py:532: task t waits on _pending_tool_event, which is not set
WaitsForDecision(t) == tasks[t].pc = "decision" /\ ~event_set[t]

\* C37: while a task waits for the decision of its approval panel, the
\* panel is mounted.
C37_PendingHandshakeKeepsPanel ==
    \A t \in Tasks : WaitsForDecision(t) => panel_mounted[t]

\* ------------------------------------------------------------------------
\* Properties of the stream bridge (continued)
\* ------------------------------------------------------------------------

\* stream.py:50-51: the worker thread has left its try block
WorkerEnded == thread \in {"final", "done"}

\* C38: the worker enqueues the sentinel exactly when it ends, as its last
\* item: the queue holds at most one sentinel, behind every other item, and
\* only once the worker is done; and when close() is never called from
\* outside, stream() ends once the worker has left its loop.
C38_OneSentinelLast ==
    /\ [](\A i \in DOMAIN queue :
            queue[i] = Sentinel => i = Len(queue) /\ thread = "done")
    /\ [][thread # "done" /\ thread' = "done"
            => thread = "final" /\ queue' = Append(queue, Sentinel)]_vars
    /\ [][thread = "done"
            => thread' = "done" /\ (queue' = queue \/ queue' = Tail(queue))]_vars
    /\ (WorkerEnded ~> (consumer = "done" \/ extClose > 0))

\* the server closed the connection after two events, close() was never
\* called from outside, and stream() has ended by taking the sentinel
C38_Witness ==
    /\ extClose = 0
    /\ ending = "eof"
    /\ thread = "done"
    /\ consumer = "done"
    /\ queue = <<>>
    /\ Len(yielded) = 2
    /\ yielded[2] \notin StreamStopTypes

\* ------------------------------------------------------------------------
\* send_message while a turn is being processed
\* ------------------------------------------------------------------------

\* chat.py:272-295: a step in which send_message was called
SendCalled == sends' # sends

\* C39: send_message called while is_processing is true does nothing: no
\* user message is mounted and no request is made (the call is not a
\* "sent" one), no task is started, nothing on the screen or in the
\* controller changes, and is_processing stays true.
C39_SendWhileProcessingIsNoOp ==
    [][SendCalled /\ is_processing
         => /\ sends' = Append(sends, "ignored")
            /\ is_processing'
            /\ UNCHANGED <<tasks, widgets, handlers, current_stream, submits,
                           execs, input_disabled, panel_mounted,
                           current_tool_panel, pending_tool_event, stop_pc>>]_vars

\* a line was submitted while the approved tool of the running turn was
\* being executed, and was ignored
C39_Witness ==
    /\ is_processing
    /\ sends # <<>>
    /\ sends[Len(sends)] = "ignored"
    /\ \E t \in Tasks : tasks[t].kind = "send" /\ tasks[t].pc = "tool_exec"

\* ------------------------------------------------------------------------
\* the legacy SSEHandler against StreamHandler
\* ------------------------------------------------------------------------

\* sse_client.py:60-87: the connection comes to an end: the server closes
\* it, the read fails, it is refused, or a record with a terminal type
\* arrives
TransportEnds ==
    \/ ending # "hang"
    \/ \E i \in DOMAIN wire : RecordEnds(wire[i])

BothEnded == consumer = "done" /\ legacy.consumer = "done"

\* C40: on the same records and the same end of the connection, and with
\* no close() from outside, SSEHandler.stream() and StreamHandler.stream()
\* yield the same sequence of events: at any moment one has yielded a
\* prefix of what the other has, and once both have ended they have yielded
\* the same.  Both end whenever the connection does, and neither ends on
\* a connection that stays open without a terminal record.
C40_LegacyHandlerYieldsTheSame ==
    /\ [](IsPrefix(yielded, legacy.yielded) \/ IsPrefix(legacy.yielded, yielded))
    /\ [](BothEnded => legacy.yielded = yielded)
    /\ (TransportEnds ~> BothEnded)
    /\ [](~TransportEnds => consumer # "done" /\ legacy.consumer # "done")

\* the server sent a text chunk and a tool request and keeps the
\* connection open; both handlers have yielded the two events and ended,
\* the legacy worker through the return of events()
C40_Witness ==
    /\ BothEnded
    /\ ending = "hang"
    /\ Len(wire) = 2
    /\ wire[2] = [type |-> "tool_request", data |-> "ok"]
    /\ legacy.yielded = <<"text_chunk", "tool_request">>
    /\ yielded = legacy.yielded
    /\ extClose = 0

====
